---------------------------- MODULE Spec2Model ----------------------------
(***************************************************************************)
(* CanvasGrid: grid addressing over a canvas bounding box, the colour      *)
(* sampler, the mouse interactions, the grid scanner, the overlay, the     *)
(* tooltip detector and the CanvasGrid object that configures them.        *)
(*                                                                         *)
(* One module, one specification per component:                            *)
(*   SpecWithin   ColorSampler.within (pure)                               *)
(*   SpecMouse    MouseInteractions (getCellCenter, click, hover, drag)    *)
(*   SpecSampler  ColorSampler.sampleCell (the two tiers, step by step)    *)
(*   Spec         GridScanner (scanAllCellsForTooltips, hasAnyTooltips,    *)
(*                selectCellsAndExtractText)                               *)
(*   SpecOverlay  GridOverlay.highlightCell                                *)
(*   SpecDetector TooltipDetector (hoverCellAndCaptureTooltip,             *)
(*                getVisibleTooltips, waitForTooltip)                      *)
(*   SpecFacade   CanvasGrid (locator, nth, gridSize, attach)              *)
(*   SpecSteps    scanAllCellsForTooltips, await by await                  *)
(* Page coordinates are JavaScript numbers; they are modelled as exact     *)
(* rationals <<numerator, denominator>>.                                   *)
(***************************************************************************)
EXTENDS Integers, Sequences, FiniteSets, TLC

VARIABLES
    \* ---- ColorSampler.within
    wActual, wExpected, wTol, wDone, wResult,
    \* ---- shared configuration: the grid and the canvas's bounding box
    grid, box,
    \* ---- MouseInteractions: the last call, the bounding boxes its lookups
    \* returned, the mouse primitives it issued, how it ended, the page's
    \* window._canvasGridMousePos, and which of the call's page operations
    \* failed
    mCall, mLookups, mEvents, mOutcome, mCenter, mStored, mFaults,
    \* ---- ColorSampler.sampleCell: the page's canvas, the call's position, the
    \* page operations it made, what became of the direct read, the call's
    \* local rgba, the capture's clip and decoded picture, how the call ended
    \* and the colour it returned
    sCanvas, sPc, sCall, sLog, sDirect, sRgba, sClip, sShot, sOutcome, sResult,
    \* ---- GridScanner: the running operation and its position, whether the
    \* canvas has a bounding box, the call's options, the loop cursor (row, col;
    \* index into cellsToCheck), the loop's locals (processed, results or
    \* textContent, cellsWithText), the calls made on the collaborators, the
    \* number of environment events so far, and how the call ended
    gOp, gPc, gLookup, gCall, gRow, gCol, gCells, gIdx, gProcessed, gResults,
    gWithText, gLog, gEvents, gOutcome, gError, gReport,
    \* ---- GridOverlay.highlightCell: the call, how it ended, and the
    \* arguments it handed to the page
    oCall, oOutcome, oArgs,
    \* ---- TooltipDetector: the running operation, its arguments, the page it
    \* queries (for waitForTooltip: what the page shows over time), the calls
    \* it made on the page, how it ended, and what it returned or threw
    dOp, dCall, dPage, dTimeline, dLog, dOutcome, dResult, dError,
    \* ---- CanvasGrid: the object's configuration and components, the last
    \* call, how it ended, what it threw, and the page operations it made
    cConfig, cCall, cOutcome, cError, cLog,
    \* ---- scanAllCellsForTooltips await by await: the scan's position, its
    \* cell, its results, the operations in flight, and how it ended
    stPc, stCell, stResults, stInFlight, stOutcome

withinVars == <<wActual, wExpected, wTol, wDone, wResult>>
mouseVars == <<mCall, mLookups, mEvents, mOutcome, mCenter, mStored, mFaults>>
samplerVars == <<sCanvas, sPc, sCall, sLog, sDirect, sRgba, sClip, sShot, sOutcome, sResult>>
scanVars == <<gOp, gPc, gLookup, gCall, gRow, gCol, gCells, gIdx, gProcessed, gResults,
              gWithText, gLog, gEvents, gOutcome, gError, gReport>>
overlayVars == <<oCall, oOutcome, oArgs>>
\* the components added after the scanner
detectorVars == <<dOp, dCall, dPage, dTimeline, dLog, dOutcome, dResult, dError>>
facadeVars == <<cConfig, cCall, cOutcome, cError, cLog>>
stepsVars == <<stPc, stCell, stResults, stInFlight, stOutcome>>
restVars == <<overlayVars, detectorVars, facadeVars, stepsVars>>
vars == <<withinVars, grid, box, mouseVars, samplerVars, scanVars, restVars>>

(***************************************************************************)
(* Bounds of the model.                                                    *)
(***************************************************************************)
MaxTol == 13
\* the scanner's grids have at most MaxCells cells (and the unit tests'
\* 3 x 2 grid)
MaxCells == 4
\* the mouse interactions' grids have at most MaxMouseCells cells (and the
\* unit tests' 4 x 3 grid)
MaxMouseCells == 4
\* at most MaxEvents environment events (a fault, a visible tooltip) in a scan
MaxEvents == 1
\* a selector matches at most MaxElements elements
MaxElements == 2
\* a caller's selector list has at most MaxSelectors selectors (the default
\* list has eight)
MaxSelectors == 2
\* gridSize is called with dimensions of at most MaxDim
MaxDim == 2
\* nth is called with indexes of at most MaxNth
MaxNth == 1

(***************************************************************************)
(* Generic helpers.                                                        *)
(***************************************************************************)
Abs(n) == IF n < 0 THEN -n ELSE n

Max(a, b) == IF a >= b THEN a ELSE b

Min(a, b) == IF a <= b THEN a ELSE b

\* An optional argument: <<>> when the caller omits it, <<v>> when it is given.
NoArg == <<>>

Arg(v) == <<v>>

(***************************************************************************)
(* ColorSampler.within(actual, expected, tol = 12):                        *)
(*   actual.every((v, i) => Math.abs(v - expected[i]) <= tol)              *)
(***************************************************************************)
DefaultTol == 12

\* the default parameter value: an omitted argument takes DefaultTol
TolOrDefault(tol) == IF tol = NoArg THEN DefaultTol ELSE tol[1]

\* Array.prototype.every: left to right, stops at the first failing element
RECURSIVE EveryWithin(_, _, _, _)
EveryWithin(actual, expected, tol, i) ==
    IF i > Len(actual) THEN TRUE
    ELSE IF Abs(actual[i] - expected[i]) <= tol
         THEN EveryWithin(actual, expected, tol, i + 1)
         ELSE FALSE

\* a mutant of within: a strict comparison
RECURSIVE EveryWithinStrict(_, _, _, _)
EveryWithinStrict(actual, expected, tol, i) ==
    IF i > Len(actual) THEN TRUE
    ELSE IF Abs(actual[i] - expected[i]) < tol
         THEN EveryWithinStrict(actual, expected, tol, i + 1)
         ELSE FALSE

withinMutStrict(actual, expected, tol) ==
    EveryWithinStrict(actual, expected, TolOrDefault(tol), 1)

within(actual, expected, tol) ==
    EveryWithin(actual, expected, TolOrDefault(tol), 1)

ChannelR == {0, 12, 13}
ChannelGB == {0, 13}
ChannelA == {0, 13, 255}
Colors == {<<r, g, b, a>> : r \in ChannelR, g \in ChannelGB, b \in {0}, a \in ChannelA}
           \cup {<<13, 13, 13, 13>>, <<12, 12, 12, 12>>, <<255, 255, 255, 255>>}
Tols == {Arg(t) : t \in 0..MaxTol} \cup {NoArg}

WithinInit ==
    /\ wActual \in Colors
    /\ wExpected \in Colors
    /\ wTol \in Tols
    /\ wDone = FALSE
    /\ wResult = FALSE

WithinOff ==
    /\ wActual = <<0, 0, 0, 0>>
    /\ wExpected = <<0, 0, 0, 0>>
    /\ wTol = NoArg
    /\ wDone = FALSE
    /\ wResult = FALSE

ApplyWithin ==
    /\ ~wDone
    /\ wDone' = TRUE
    /\ wResult' = within(wActual, wExpected, wTol)
    /\ UNCHANGED <<wActual, wExpected, wTol, grid, box, mouseVars, samplerVars, scanVars, restVars>>

(* C9: within(actual, expected, tol) is true exactly when every one of the  *)
(* four channels differs by at most tol, tol being 12 when omitted; so it  *)
(* is true of identical colours for every tol, at tol 0 it is equality,    *)
(* and for colours differing by exactly d in every channel it is tol >= d. *)
C9_Tol == IF wTol = <<>> THEN 12 ELSE wTol[1]

C9_WithinIsChannelwise ==
    wDone =>
        /\ wResult = (\A i \in 1..4 : /\ wActual[i] - wExpected[i] <= C9_Tol
                                       /\ wExpected[i] - wActual[i] <= C9_Tol)
        /\ (wActual = wExpected => wResult)
        /\ (C9_Tol = 0 => (wResult <=> wActual = wExpected))
        /\ \A d \in 0..255 :
              (\A i \in 1..4 : Abs(wActual[i] - wExpected[i]) = d)
                  => (wResult <=> C9_Tol >= d)

C9_Witness ==
    /\ wDone
    /\ wTol = <<>>
    /\ wActual = <<12, 12, 12, 12>>
    /\ wExpected = <<0, 0, 0, 0>>
    /\ wResult

(***************************************************************************)
(* Exact rationals <<n, d>>, d > 0, in lowest terms: the model of the      *)
(* JavaScript numbers that are page coordinates.                           *)
(***************************************************************************)
RECURSIVE GCD(_, _)
GCD(a, b) == IF b = 0 THEN a ELSE GCD(b, a % b)

Rat(n, d) == LET g == GCD(Abs(n), d) IN <<n \div g, d \div g>>

RInt(n) == <<n, 1>>

RAdd(p, q) == Rat(p[1] * q[2] + q[1] * p[2], p[2] * q[2])

RSub(p, q) == Rat(p[1] * q[2] - q[1] * p[2], p[2] * q[2])

RMul(p, q) == Rat(p[1] * q[1], p[2] * q[2])

\* p / k for an integer k > 0
RDivInt(p, k) == Rat(p[1], p[2] * k)

RLt(p, q) == p[1] * q[2] < q[1] * p[2]

RLe(p, q) == p[1] * q[2] <= q[1] * p[2]

(***************************************************************************)
(* Grids and bounding boxes.                                               *)
(***************************************************************************)
\* const DEFAULT_GRID = { cols: 8, rows: 6 }
DEFAULT_GRID == [cols |-> 8, rows |-> 6]

\* the unit tests' grid and bounding box
TestGrid == [cols |-> 4, rows |-> 3]

TestBox == [x |-> 10, y |-> 10, width |-> 200, height |-> 150]

GridsUpTo(n) == {g \in [cols : 1..n, rows : 1..n] : g.cols * g.rows <= n}

\* bounding boxes of positive size (the data model's BoundingBox)
Boxes == {TestBox, [x |-> -3, y |-> 0, width |-> 7, height |-> 1]}

\* what canvas.boundingBox() resolves to: null (<<>>) or the box
NoBox == <<>>

Lookup == {NoBox, <<box>>}

Cols == 0..(grid.cols - 1)

Rows == 0..(grid.rows - 1)

Pt(x, y) == [x |-> x, y |-> y]

Origin == Pt(RInt(0), RInt(0))

(***************************************************************************)
(* MouseInteractions.getCellCenter: the centre of cell (col, row) of a     *)
(* cols x rows grid over bounding box b.                                   *)
(*   x = box.x + (box.width / this.grid.cols) * (col + 0.5)                *)
(*   y = box.y + (box.height / this.grid.rows) * (row + 0.5)               *)
(***************************************************************************)
Half(n) == Rat(2 * n + 1, 2)

\* a mutant: the cell's corner instead of its centre
cellCenterMutCorner(b, g, col, row) ==
    Pt(RAdd(RInt(b.x), RMul(RDivInt(RInt(b.width), g.cols), RInt(col))),
       RAdd(RInt(b.y), RMul(RDivInt(RInt(b.height), g.rows), RInt(row))))

cellCenter(b, g, col, row) ==
    Pt(RAdd(RInt(b.x), RMul(RDivInt(RInt(b.width), g.cols), Half(col))),
       RAdd(RInt(b.y), RMul(RDivInt(RInt(b.height), g.rows), Half(row))))

NoCanvasBBox == "no canvas bbox"

MouseError == "mouse error"

\* getCellCenter: [ok, center] from one bounding-box lookup
getCellCenter(lookup, col, row) ==
    IF lookup = NoBox
    THEN [ok |-> FALSE, center |-> Origin]
    ELSE [ok |-> TRUE, center |-> cellCenter(lookup[1], grid, col, row)]

(***************************************************************************)
(* The page's mouse primitives, as the events a call issues.               *)
(***************************************************************************)
Ev(type, p, button) == [type |-> type, x |-> p.x, y |-> p.y, button |-> button]

Move(p) == Ev("move", p, "none")

\* mouse.down() and mouse.up() act at the pointer's position
Down(p) == Ev("down", p, "left")

Up(p) == Ev("up", p, "left")

\* The calls of `events` a handler gets to issue when its failAt-th mouse
\* primitive throws (0: none does): the ones before it.
Issued(events, failAt) ==
    IF failAt = 0 \/ failAt > Len(events) THEN events
    ELSE SubSeq(events, 1, failAt - 1)

Failed(events, failAt) == failAt > 0 /\ failAt <= Len(events)

\* the result of a handler
Result(lookups, events, outcome, center, stored) ==
    [lookups |-> lookups, events |-> events, outcome |-> outcome,
     center |-> center, stored |-> stored]

(***************************************************************************)
(* clickCell, doubleClickCell, rightClickCell: one lookup, one primitive.  *)
(***************************************************************************)
pointCell(type, button, lookup, col, row, fails, stored) ==
    LET c == getCellCenter(lookup, col, row) IN
    IF ~c.ok THEN Result(<<lookup>>, <<>>, NoCanvasBBox, <<>>, stored)
    ELSE IF fails THEN Result(<<lookup>>, <<>>, MouseError, <<c.center>>, stored)
    ELSE Result(<<lookup>>, <<Ev(type, c.center, button)>>, "ok", <<c.center>>, stored)

clickCell(lookup, col, row, fails, stored) ==
    pointCell("click", "left", lookup, col, row, fails, stored)

doubleClickCell(lookup, col, row, fails, stored) ==
    pointCell("dblclick", "left", lookup, col, row, fails, stored)

rightClickCell(lookup, col, row, fails, stored) ==
    pointCell("click", "right", lookup, col, row, fails, stored)

(***************************************************************************)
(* hoverCell(col, row, options).                                           *)
(***************************************************************************)
DefaultMoveSteps == 3
DefaultJitterAmount == 2
DefaultDwellTime == 50

Opt(v, default) == IF v = NoArg THEN default ELSE v[1]

HoverOpts(moveSteps, jitterAmount, dwellTime) ==
    [moveSteps |-> moveSteps, jitterAmount |-> jitterAmount, dwellTime |-> dwellTime]

NoOptions == HoverOpts(NoArg, NoArg, NoArg)

\* the scanner's and the tooltip detector's hover profiles
ScanHover == HoverOpts(Arg(2), Arg(1), Arg(20))

DetectHover == HoverOpts(Arg(3), Arg(2), Arg(30))

HoverOptions ==
    {NoOptions, ScanHover, DetectHover,
     HoverOpts(Arg(1), Arg(0), Arg(0)), HoverOpts(Arg(0), Arg(1), NoArg)}

\* stepX = current.x + ((targetX - current.x) * i / moveSteps), i = 1..moveSteps
StepPoint(from, to, i, n) ==
    Pt(RAdd(from.x, RDivInt(RMul(RSub(to.x, from.x), RInt(i)), n)),
       RAdd(from.y, RDivInt(RMul(RSub(to.y, from.y), RInt(i)), n)))

StepMoves(from, to, n) == [i \in 1..n |-> Move(StepPoint(from, to, i, n))]

HoverMovesMutStepsFromOne(from, target, moveSteps, jitterAmount) ==
    (IF moveSteps > 0 THEN StepMoves(from, target, moveSteps) ELSE <<>>)
    \o <<Move(target)>>
    \o (IF jitterAmount > 0
        THEN <<Move(Pt(RAdd(target.x, RInt(jitterAmount)), target.y)), Move(target)>>
        ELSE <<>>)

HoverMoves(from, target, moveSteps, jitterAmount) ==
    (IF moveSteps > 1 THEN StepMoves(from, target, moveSteps) ELSE <<>>)
    \o <<Move(target)>>
    \o (IF jitterAmount > 0
        THEN <<Move(Pt(RAdd(target.x, RInt(jitterAmount)), target.y)), Move(target)>>
        ELSE <<>>)

\* env: the read of the stored position fails, the write of it fails, and the
\* failAt-th mouse.move throws
HoverEnv(readFails, writeFails, failAt) ==
    [readFails |-> readFails, writeFails |-> writeFails, failAt |-> failAt]

NoFault == HoverEnv(FALSE, FALSE, 0)

MaxHoverMoves == DefaultMoveSteps + 3

HoverEnvs ==
    {NoFault, HoverEnv(TRUE, FALSE, 0), HoverEnv(FALSE, TRUE, 0), HoverEnv(TRUE, TRUE, 0)}
    \cup {HoverEnv(FALSE, FALSE, k) : k \in 1..MaxHoverMoves}

hoverCellMutReadFailureKeepsStored(lookup, col, row, options, env, stored) ==
    LET moveSteps == Opt(options.moveSteps, DefaultMoveSteps)
        jitterAmount == Opt(options.jitterAmount, DefaultJitterAmount)
        c == getCellCenter(lookup, col, row)
        current == IF stored = <<>> THEN Origin ELSE stored[1]
        moves == HoverMoves(current, c.center, moveSteps, jitterAmount)
    IN  IF ~c.ok THEN Result(<<lookup>>, <<>>, NoCanvasBBox, <<>>, stored)
        ELSE IF Failed(moves, env.failAt)
        THEN Result(<<lookup>>, Issued(moves, env.failAt), MouseError, <<c.center>>, stored)
        ELSE Result(<<lookup>>, moves, "ok", <<c.center>>,
                    IF env.writeFails THEN stored ELSE <<c.center>>)

hoverCell(lookup, col, row, options, env, stored) ==
    LET moveSteps == Opt(options.moveSteps, DefaultMoveSteps)
        jitterAmount == Opt(options.jitterAmount, DefaultJitterAmount)
        c == getCellCenter(lookup, col, row)
        current == IF env.readFails \/ stored = <<>> THEN Origin ELSE stored[1]
        moves == HoverMoves(current, c.center, moveSteps, jitterAmount)
    IN  IF ~c.ok THEN Result(<<lookup>>, <<>>, NoCanvasBBox, <<>>, stored)
        ELSE IF Failed(moves, env.failAt)
        THEN Result(<<lookup>>, Issued(moves, env.failAt), MouseError, <<c.center>>, stored)
        ELSE Result(<<lookup>>, moves, "ok", <<c.center>>,
                    IF env.writeFails THEN stored ELSE <<c.center>>)

(***************************************************************************)
(* dragFromCellToCell(fromCol, fromRow, toCol, toRow).                     *)
(***************************************************************************)
DragSteps == 5

\* move to the source, down, DragSteps interpolated moves, the exact move, up
DragCalls == DragSteps + 4

DragEventsMutNoExactMove(from, to) ==
    <<Move(from), Down(from)>> \o StepMoves(from, to, DragSteps) \o <<Up(to)>>

DragEvents(from, to) ==
    <<Move(from), Down(from)>> \o StepMoves(from, to, DragSteps) \o <<Move(to), Up(to)>>

\* a mutant: the destination is looked up only after the button is down
dragMutLateLookup(lookup1, lookup2, fromCol, fromRow, toCol, toRow, failAt, stored) ==
    LET f == getCellCenter(lookup1, fromCol, fromRow)
        t == getCellCenter(lookup2, toCol, toRow)
    IN  IF ~f.ok THEN Result(<<lookup1>>, <<>>, NoCanvasBBox, <<>>, stored)
        ELSE IF ~t.ok
        THEN Result(<<lookup1, lookup2>>, <<Move(f.center), Down(f.center)>>,
                    NoCanvasBBox, <<>>, stored)
        ELSE Result(<<lookup1, lookup2>>, DragEvents(f.center, t.center), "ok",
                    <<t.center>>, stored)

dragFromCellToCell(lookup1, lookup2, fromCol, fromRow, toCol, toRow, failAt, stored) ==
    LET f == getCellCenter(lookup1, fromCol, fromRow)
        t == getCellCenter(lookup2, toCol, toRow)
    IN  IF ~f.ok THEN Result(<<lookup1>>, <<>>, NoCanvasBBox, <<>>, stored)
        ELSE IF ~t.ok THEN Result(<<lookup1, lookup2>>, <<>>, NoCanvasBBox, <<>>, stored)
        ELSE LET events == DragEvents(f.center, t.center) IN
             IF Failed(events, failAt)
             THEN Result(<<lookup1, lookup2>>, Issued(events, failAt), MouseError,
                         <<t.center>>, stored)
             ELSE Result(<<lookup1, lookup2>>, events, "ok", <<t.center>>, stored)

(***************************************************************************)
(* The MouseInteractions calls as actions: each is one call of the method  *)
(* on the attached grid, with what the page answers as its inputs.         *)
(***************************************************************************)
Call(name, col, row, toCol, toRow, options) ==
    [name |-> name, col |-> col, row |-> row, toCol |-> toCol, toRow |-> toRow,
     options |-> options]

NoCall == Call("none", 0, 0, 0, 0, NoOptions)

MouseInit ==
    /\ mCall = NoCall
    /\ mLookups = <<>>
    /\ mEvents = <<>>
    /\ mOutcome = "none"
    /\ mCenter = <<>>
    /\ mStored = <<>>
    /\ mFaults = NoFault

MouseOff == MouseInit

\* a call starts when no other is in progress: the caller awaits each one;
\* env is what the page does during the call
ApplyIn(call, r, env) ==
    /\ mOutcome = "none"
    /\ mFaults' = env
    /\ mCall' = call
    /\ mLookups' = r.lookups
    /\ mEvents' = r.events
    /\ mOutcome' = r.outcome
    /\ mCenter' = r.center
    /\ mStored' = r.stored
    /\ UNCHANGED <<withinVars, grid, box, samplerVars, scanVars, restVars>>

\* the awaited call has settled and its caller goes on
MouseReturn ==
    /\ mOutcome # "none"
    /\ mCall' = NoCall
    /\ mLookups' = <<>>
    /\ mEvents' = <<>>
    /\ mOutcome' = "none"
    /\ mCenter' = <<>>
    /\ mFaults' = NoFault
    /\ UNCHANGED <<mStored, withinVars, grid, box, samplerVars, scanVars, restVars>>

\* a call whose only page operation that may fail is its failAt-th mouse
\* primitive (0: none fails)
Apply(call, r, failAt) == ApplyIn(call, r, HoverEnv(FALSE, FALSE, failAt))

GetCellCenter(col, row, lookup) ==
    LET c == getCellCenter(lookup, col, row) IN
    Apply(Call("getCellCenter", col, row, col, row, NoOptions),
          Result(<<lookup>>, <<>>, IF c.ok THEN "ok" ELSE NoCanvasBBox,
                 IF c.ok THEN <<c.center>> ELSE <<>>, mStored), 0)

ClickCell(col, row, lookup, fails) ==
    Apply(Call("clickCell", col, row, col, row, NoOptions),
          clickCell(lookup, col, row, fails, mStored), IF fails THEN 1 ELSE 0)

DoubleClickCell(col, row, lookup, fails) ==
    Apply(Call("doubleClickCell", col, row, col, row, NoOptions),
          doubleClickCell(lookup, col, row, fails, mStored), IF fails THEN 1 ELSE 0)

RightClickCell(col, row, lookup, fails) ==
    Apply(Call("rightClickCell", col, row, col, row, NoOptions),
          rightClickCell(lookup, col, row, fails, mStored), IF fails THEN 1 ELSE 0)

HoverCell(col, row, options, lookup, env) ==
    ApplyIn(Call("hoverCell", col, row, col, row, options),
            hoverCell(lookup, col, row, options, env, mStored), env)

DragFromCellToCell(fromCol, fromRow, toCol, toRow, lookup1, lookup2, failAt) ==
    Apply(Call("dragFromCellToCell", fromCol, fromRow, toCol, toRow, NoOptions),
          dragFromCellToCell(lookup1, lookup2, fromCol, fromRow, toCol, toRow,
                             failAt, mStored), failAt)

(***************************************************************************)
(* GridOverlay.highlightCell(col, row, options): the rectangle of the cell *)
(* and the options, handed to the page.                                    *)
(*   cellWidth = box.width / cols;  cellLeft = box.x + cellWidth * col     *)
(*   cellHeight = box.height / rows; cellTop = box.y + cellHeight * row    *)
(***************************************************************************)
DefaultDuration == 2000
DefaultThickness == 8

DefaultColor == "#00FF00"

\* a mutant: whole-pixel cell sizes
cellRectMutFloor(b, g, col, row) ==
    LET cellWidth == RInt(b.width \div g.cols)
        cellHeight == RInt(b.height \div g.rows)
    IN  [x |-> RAdd(RInt(b.x), RMul(cellWidth, RInt(col))),
         y |-> RAdd(RInt(b.y), RMul(cellHeight, RInt(row))),
         width |-> cellWidth, height |-> cellHeight]

cellRect(b, g, col, row) ==
    LET cellWidth == RDivInt(RInt(b.width), g.cols)
        cellHeight == RDivInt(RInt(b.height), g.rows)
    IN  [x |-> RAdd(RInt(b.x), RMul(cellWidth, RInt(col))),
         y |-> RAdd(RInt(b.y), RMul(cellHeight, RInt(row))),
         width |-> cellWidth, height |-> cellHeight]

HighlightOpts(color, duration, thickness) ==
    [color |-> color, duration |-> duration, thickness |-> thickness]

\* no options, and the unit test's
HighlightOptions ==
    {HighlightOpts(NoArg, NoArg, NoArg), HighlightOpts(Arg("#FF0000"), Arg(1000), NoArg)}

EvaluateError == "evaluate error"

OverlayInit ==
    /\ oCall = <<>>
    /\ oOutcome = "none"
    /\ oArgs = <<>>

OverlayOff == OverlayInit

OverlayOthers ==
    <<withinVars, grid, box, mouseVars, samplerVars, scanVars, detectorVars, facadeVars, stepsVars>>

HighlightCell(col, row, options, lookup, fails) ==
    /\ oOutcome = "none"
    /\ oCall' = <<[col |-> col, row |-> row, options |-> options]>>
    /\ IF lookup = NoBox
       THEN oOutcome' = NoCanvasBBox /\ oArgs' = <<>>
       ELSE /\ oArgs' = <<[rect |-> cellRect(lookup[1], grid, col, row),
                           opts |-> HighlightOpts(Opt(options.color, DefaultColor),
                                                  Opt(options.duration, DefaultDuration),
                                                  Opt(options.thickness, DefaultThickness))]>>
            /\ oOutcome' = IF fails THEN EvaluateError ELSE "ok"
    /\ UNCHANGED OverlayOthers

\* the awaited call has settled and its caller goes on
OverlayReturn ==
    /\ oOutcome # "none"
    /\ oCall' = <<>>
    /\ oOutcome' = "none"
    /\ oArgs' = <<>>
    /\ UNCHANGED OverlayOthers

(***************************************************************************)
(* ColorSampler.sampleCell(col, row): the direct in-page read, then the    *)
(* screenshot clip.                                                        *)
(***************************************************************************)
\* Math.round(n / d) and Math.floor(n / d) for d > 0
RoundDiv(n, d) == (2 * n + d) \div (2 * d)

RRound(q) == RoundDiv(q[1], q[2])

RFloor(q) == q[1] \div q[2]

\* The pictures a bitmap may hold, each a colour per pixel.
Images == {"red", "stripes"}

Picture(img, x, y) ==
    IF img = "red" THEN <<255, 0, 0, 255>>
    ELSE IF x % 2 = 0 THEN <<250, 250, 250, 255>> ELSE <<0, 0, 7, 128>>

InBitmap(w, h, x, y) == x >= 0 /\ x < w /\ y >= 0 /\ y < h

\* ctx.getImageData(x, y, 1, 1).data: transparent black outside the bitmap
GetImageData(img, w, h, x, y) ==
    IF InBitmap(w, h, x, y) THEN Picture(img, x, y) ELSE <<0, 0, 0, 0>>

\* gl.readPixels(x, can.height - 1 - y, 1, 1, ..., px): the framebuffer row
\* can.height - 1 - y is the canvas's row y; outside the framebuffer px keeps
\* what it held
ReadPixels(img, w, h, x, y, px) ==
    LET fy == h - 1 - y IN
    IF InBitmap(w, h, x, fy) THEN Picture(img, x, h - 1 - fy) ELSE px

\* for (dy = -1..1) for (dx = -1..1): the k-th read's offset, k = 1..9
Dx(k) == ((k - 1) % 3) - 1

Dy(k) == ((k - 1) \div 3) - 1

RECURSIVE Reads(_, _, _, _, _)
\* the first k reads around (cx, cy), as a sequence of colours
Reads(can, gl, cx, cy, k) ==
    IF k = 0 THEN <<>>
    ELSE LET before == Reads(can, gl, cx, cy, k - 1)
             px == IF k = 1 THEN <<0, 0, 0, 0>> ELSE before[k - 1]
             x == cx + Dx(k)
             y == cy + Dy(k)
         IN  Append(before,
                    IF gl THEN ReadPixels(can.image, can.width, can.height, x, y, px)
                    ELSE GetImageData(can.image, can.width, can.height, x, y))

RECURSIVE SumChannel(_, _, _)
SumChannel(reads, ch, k) ==
    IF k = 0 THEN 0 ELSE reads[k][ch] + SumChannel(reads, ch, k - 1)

\* [Math.round(r / n), Math.round(g / n), Math.round(b / n), Math.round(a / n)]
Average(reads) ==
    [ch \in 1..4 |-> RoundDiv(SumChannel(reads, ch, Len(reads)), Len(reads))]

\* cx = Math.round((sx - rect.left) * (can.width / rect.width)), with
\* sx = rect.left + (rect.width / cols) * (col + 0.5)
DevicePixel(extent, n, i, bitmap) ==
    RRound(RMul(RMul(RDivInt(RInt(extent), n), Half(i)), Rat(bitmap, extent)))

DirectRead(can, b, g, col, row) ==
    Average(Reads(can, can.context = "webgl",
                  DevicePixel(b.width, g.cols, col, can.width),
                  DevicePixel(b.height, g.rows, row, can.height), 9))

\* the clip of the capture: the cell's corner, and at least 2 x 2 pixels
ClipMutNoMinimum(b, g, col, row) ==
    LET cellW == RDivInt(RInt(b.width), g.cols)
        cellH == RDivInt(RInt(b.height), g.rows)
    IN  [x |-> RAdd(RInt(b.x), RMul(cellW, RInt(col))),
         y |-> RAdd(RInt(b.y), RMul(cellH, RInt(row))),
         width |-> RFloor(cellW),
         height |-> RFloor(cellH)]

Clip(b, g, col, row) ==
    LET cellW == RDivInt(RInt(b.width), g.cols)
        cellH == RDivInt(RInt(b.height), g.rows)
    IN  [x |-> RAdd(RInt(b.x), RMul(cellW, RInt(col))),
         y |-> RAdd(RInt(b.y), RMul(cellH, RInt(row))),
         width |-> Max(2, RFloor(cellW)),
         height |-> Max(2, RFloor(cellH))]

NoClip == [x |-> RInt(0), y |-> RInt(0), width |-> 0, height |-> 0]

\* pts = [[.5, .5], [.25, .5], [.75, .5], [.5, .25], [.5, .75]], as quarters
SamplePoints == <<<<2, 2>>, <<1, 2>>, <<3, 2>>, <<2, 1>>, <<2, 3>>>>

\* x = Math.floor(bmp.width * fx), y = Math.floor(bmp.height * fy)
CaptureReads(img, w, h) ==
    [k \in 1..Len(SamplePoints) |->
        GetImageData(img, w, h, (w * SamplePoints[k][1]) \div 4,
                                (h * SamplePoints[k][2]) \div 4)]

\* the decoded screenshot has the clip's size
CaptureRead(img, clip) == Average(CaptureReads(img, clip.width, clip.height))

CanvasNotFound == "canvas not found"

ScreenshotFailed == "screenshot failed"

DecodeFailed == "decode failed"

NoColor == <<>>

\* The page's canvas: its bitmap, the context it gives, whether reading its
\* pixels throws (a tainted canvas), and its picture.
Canvases ==
    [width : {2, 8}, height : {2, 6}, context : {"webgl", "2d", "none"},
     tainted : BOOLEAN, image : Images]

SCall(col, row) == [col |-> col, row |-> row]

SamplerIdle ==
    /\ sPc = "idle"
    /\ sCall = SCall(0, 0)
    /\ sLog = <<>>
    /\ sDirect = "none"
    /\ sRgba = NoColor
    /\ sClip = NoClip
    /\ sShot = "none"
    /\ sOutcome = "none"
    /\ sResult = NoColor

SamplerInit ==
    /\ sCanvas \in Canvases
    /\ SamplerIdle

SamplerOff ==
    /\ sCanvas = [width |-> 8, height |-> 6, context |-> "2d", tainted |-> FALSE,
                  image |-> "red"]
    /\ SamplerIdle

SamplerOthers == <<withinVars, grid, box, mouseVars, sCanvas, scanVars, restVars>>

\* sampleCell(col, row) is called
SampleCell(col, row) ==
    /\ sPc = "idle"
    /\ sPc' = "elementHandle"
    /\ sCall' = SCall(col, row)
    /\ UNCHANGED <<sLog, sDirect, sRgba, sClip, sShot, sOutcome, sResult, SamplerOthers>>

Settle(outcome, result) ==
    /\ sPc' = "done"
    /\ sOutcome' = outcome
    /\ sResult' = result

\* const handle = await this.canvas.elementHandle();
\* if (!handle) throw new Error('canvas not found');
\* a mutant: the handle is not checked
ElementHandleMutUnchecked(found) ==
    /\ sPc = "elementHandle"
    /\ sLog' = Append(sLog, IF found THEN "elementHandle" ELSE "elementHandle:null")
    /\ sPc' = "evaluate"
    /\ UNCHANGED <<sOutcome, sResult, sCall, sDirect, sRgba, sClip, sShot, SamplerOthers>>

ElementHandle(found) ==
    /\ sPc = "elementHandle"
    /\ sLog' = Append(sLog, IF found THEN "elementHandle" ELSE "elementHandle:null")
    /\ IF found
       THEN sPc' = "evaluate" /\ UNCHANGED <<sOutcome, sResult>>
       ELSE Settle(CanvasNotFound, NoColor)
    /\ UNCHANGED <<sCall, sDirect, sRgba, sClip, sShot, SamplerOthers>>

\* page.evaluate(...) starts the in-page promise: its executor schedules the
\* animation-frame callback. An evaluate that rejects (the executor throws,
\* the page goes away) is caught: .catch(() => null).
Evaluate(rejects) ==
    /\ sPc = "evaluate"
    /\ sLog' = Append(sLog, IF rejects THEN "evaluate:rejected" ELSE "evaluate")
    /\ IF rejects
       THEN sPc' = "boundingBox" /\ sDirect' = "rejected"
       ELSE sPc' = "requestAnimationFrame" /\ sDirect' = "pending"
    /\ UNCHANGED <<sCall, sRgba, sClip, sShot, sOutcome, sResult, SamplerOthers>>

\* The animation-frame callback: resolve(avg(read)). A read that throws
\* (getImageData on a tainted canvas, ctx! when ctx is null) throws out of
\* the callback: resolve is never called and nothing rejects the promise.
AnimationFrame ==
    /\ sPc = "requestAnimationFrame"
    /\ sLog' = Append(sLog, "requestAnimationFrame")
    /\ IF sCanvas.context = "none"
       THEN sPc' = "awaitEvaluate" /\ sDirect' = "noContext" /\ UNCHANGED sRgba
       ELSE IF sCanvas.context = "2d" /\ sCanvas.tainted
       THEN sPc' = "awaitEvaluate" /\ sDirect' = "readThrew" /\ UNCHANGED sRgba
       ELSE /\ sPc' = "rgba"
            /\ sDirect' = "color"
            /\ sRgba' = <<DirectRead(sCanvas, box, grid, sCall.col, sCall.row)>>
    /\ UNCHANGED <<sCall, sClip, sShot, sOutcome, sResult, SamplerOthers>>

\* if (rgba) return rgba;
ReturnDirect ==
    /\ sPc = "rgba"
    /\ Settle("returned", sRgba)
    /\ UNCHANGED <<sCall, sLog, sDirect, sRgba, sClip, sShot, SamplerOthers>>

\* const box = await this.canvas.boundingBox();
\* if (!box) throw new Error('no canvas bbox');
BoundingBox(lookup) ==
    /\ sPc = "boundingBox"
    /\ sLog' = Append(sLog, IF lookup = NoBox THEN "boundingBox:null" ELSE "boundingBox")
    /\ IF lookup = NoBox
       THEN Settle(NoCanvasBBox, NoColor) /\ UNCHANGED sClip
       ELSE /\ sPc' = "screenshot"
            /\ sClip' = Clip(lookup[1], grid, sCall.col, sCall.row)
            /\ UNCHANGED <<sOutcome, sResult>>
    /\ UNCHANGED <<sCall, sDirect, sRgba, sShot, SamplerOthers>>

\* const png = await this.page.screenshot({ clip, type: 'png' });
Screenshot(fails) ==
    /\ sPc = "screenshot"
    /\ sLog' = Append(sLog, IF fails THEN "screenshot:failed" ELSE "screenshot")
    /\ IF fails
       THEN Settle(ScreenshotFailed, NoColor)
       ELSE sPc' = "decode" /\ UNCHANGED <<sOutcome, sResult>>
    /\ UNCHANGED <<sCall, sDirect, sRgba, sClip, sShot, SamplerOthers>>

\* return await this.page.evaluate(async (bytes) => ..., Array.from(png));
Decode(fails, img) ==
    /\ sPc = "decode"
    /\ sLog' = Append(sLog, IF fails THEN "decode:failed" ELSE "decode")
    /\ IF fails
       THEN Settle(DecodeFailed, NoColor) /\ UNCHANGED sShot
       ELSE Settle("returned", <<CaptureRead(img, sClip)>>) /\ sShot' = img
    /\ UNCHANGED <<sCall, sDirect, sRgba, sClip, SamplerOthers>>

\* the awaited call has settled and its caller goes on
SamplerReturn ==
    /\ sPc = "done"
    /\ sPc' = "idle"
    /\ sCall' = SCall(0, 0)
    /\ sLog' = <<>>
    /\ sDirect' = "none"
    /\ sRgba' = NoColor
    /\ sClip' = NoClip
    /\ sShot' = "none"
    /\ sOutcome' = "none"
    /\ sResult' = NoColor
    /\ UNCHANGED SamplerOthers

(***************************************************************************)
(* TooltipDetector: the page's tooltip elements and the two queries the    *)
(* scanner makes.                                                          *)
(***************************************************************************)
DefaultSelectors ==
    <<"[role=\"tooltip\"]", ".tooltip", ".hover-info", ".chart-tooltip",
      ".data-tooltip", "[data-tooltip]", ".tippy-content", ".d3-tip">>

\* An element matched by a selector: whether it is visible, its textContent,
\* its innerHTML, and the query on it that throws ("none": none does).
Element(visible, text, html) ==
    [visible |-> visible, text |-> text, html |-> html, throws |-> "none"]

\* the element's query `step` throws (the element is detached meanwhile)
Throwing(element, step) == [element EXCEPT !.throws = step]

\* what a selector whose count() throws matches
Broken == [visible |-> FALSE, text |-> "", html |-> "", throws |-> "count"]

\* locator.count() throws
CountThrows(elements) == \E i \in 1..Len(elements) : elements[i].throws = "count"

\* A page: for each selector, in list order, the elements it matches.
NoMatch == [s \in 1..Len(DefaultSelectors) |-> <<>>]

Matching(dom, s, elements) == [dom EXCEPT ![s] = elements]

\* Pages after a hover: no tooltip; a tooltip with text; a visible tooltip
\* with empty text; a blank tooltip behind a hidden one; a selector whose
\* query throws before one that shows two tooltips.
Doms ==
    <<NoMatch,
      Matching(NoMatch, 2, <<Element(TRUE, "tip", "<b>tip</b>")>>),
      Matching(NoMatch, 1, <<Element(TRUE, "", "")>>),
      Matching(Matching(NoMatch, 1, <<Element(FALSE, "tip", "<b>tip</b>")>>), 7,
               <<Element(TRUE, " ", " ")>>),
      Matching(Matching(NoMatch, 1, <<Broken>>), 8,
               <<Element(TRUE, "tap", "<i>tap</i>"), Element(TRUE, "top", "<i>top</i>")>>)>>

\* x || undefined, for a string x
OrUndefined(text) == IF text = "" THEN <<>> ELSE <<text>>

\* getVisibleTooltips, the loop over a selector's elements: isVisible, then
\* textContent, innerHTML and boundingBox are awaited before the push; a
\* throw leaves the selector, keeping what was pushed before it.
RECURSIVE SelectorTooltips(_, _, _)
SelectorTooltipsMutStopsAtHidden(elements, s, i) ==
    IF i > Len(elements) THEN <<>>
    ELSE IF elements[i].throws = "isVisible" THEN <<>>
    ELSE IF ~elements[i].visible THEN <<>>
    ELSE IF elements[i].throws # "none" THEN <<>>
    ELSE <<[selector |-> DefaultSelectors[s], index |-> i - 1,
            text |-> OrUndefined(elements[i].text),
            html |-> elements[i].html]>>
         \o SelectorTooltips(elements, s, i + 1)

SelectorTooltips(elements, s, i) ==
    IF i > Len(elements) THEN <<>>
    ELSE IF elements[i].throws = "isVisible" THEN <<>>
    ELSE IF ~elements[i].visible THEN SelectorTooltips(elements, s, i + 1)
    ELSE IF elements[i].throws # "none" THEN <<>>
    ELSE <<[selector |-> DefaultSelectors[s], index |-> i - 1,
            text |-> OrUndefined(elements[i].text),
            html |-> elements[i].html]>>
         \o SelectorTooltips(elements, s, i + 1)

RECURSIVE TooltipsFrom(_, _)
TooltipsFrom(dom, s) ==
    IF s > Len(DefaultSelectors) THEN <<>>
    ELSE (IF CountThrows(dom[s]) THEN <<>> ELSE SelectorTooltips(dom[s], s, 1))
         \o TooltipsFrom(dom, s + 1)

getVisibleTooltips(dom) == TooltipsFrom(dom, 1)

\* hoverCellAndCaptureTooltip, after the hover and the wait
NotVisible == [visible |-> FALSE, selector |-> <<>>, text |-> <<>>, html |-> <<>>]

\* the loop over the selectors from selector s on, tooltipInfo being info:
\* visible and selector are assigned before textContent and innerHTML are
\* awaited, and the catch goes on with the next selector
RECURSIVE CaptureFrom(_, _, _)
CaptureFrom(dom, s, info) ==
    IF s > Len(DefaultSelectors) THEN info
    ELSE IF CountThrows(dom[s]) \/ dom[s] = <<>> THEN CaptureFrom(dom, s + 1, info)
    ELSE LET first == dom[s][1]
             seen == [info EXCEPT !.visible = TRUE, !.selector = <<DefaultSelectors[s]>>]
             read == [seen EXCEPT !.text = OrUndefined(first.text)]
         IN  IF first.throws = "isVisible" \/ ~first.visible
             THEN CaptureFrom(dom, s + 1, info)
             ELSE IF first.throws = "textContent" THEN CaptureFrom(dom, s + 1, seen)
             ELSE IF first.throws = "innerHTML" THEN CaptureFrom(dom, s + 1, read)
             ELSE [read EXCEPT !.html = OrUndefined(first.html)]

captureTooltip(dom) == CaptureFrom(dom, 1, NotVisible)

(***************************************************************************)
(* TooltipDetector: its operations as calls on a page.                     *)
(***************************************************************************)
\* a cell's address
Cell(col, row) == [col |-> col, row |-> row]

DefaultWaitTime == 500

DefaultTimeout == 3000

\* Elements a page may hold: a tooltip, a tooltip without text, a hidden
\* element, and a tooltip one of whose queries throws.
Tip == Element(TRUE, "tip", "<b>tip</b>")

Blank == Element(TRUE, "", "")

Hidden == Element(FALSE, "hid", "<i>hid</i>")

Steps == {"isVisible", "textContent", "innerHTML", "boundingBox"}

Elements == {Tip, Blank, Hidden} \cup {Throwing(Tip, step) : step \in Steps}

ElementLists(n) == {<<Broken>>} \cup UNION {[1..m -> Elements] : m \in 0..n}

\* the pages: what the first and the last selector of the list match
Pages ==
    {Matching(Matching(NoMatch, 1, a), 8, b) :
        a \in ElementLists(MaxElements), b \in ElementLists(1)}

\* The page during a waitForTooltip call. The overall timeout is cut into as
\* many slots as there are selectors, each as long as one wait's budget;
\* shows[k] is the set of slots throughout which selector k matches a visible
\* element, and the reads on a selector in detached throw.
Timeline(shows, detached) == [shows |-> shows, detached |-> detached]

NoTimeline == Timeline(<<>>, {})

Timelines(n) ==
    {Timeline(shows, detached) : shows \in [1..n -> SUBSET (1..n)], detached \in SUBSET (1..n)}

\* for the default selectors: nothing shows, or one selector in one slot
DefaultTimelines ==
    {Timeline([k \in 1..Len(DefaultSelectors) |-> IF k = a THEN {b} ELSE {}], {}) :
        a \in {0, 1, Len(DefaultSelectors)}, b \in {1, Len(DefaultSelectors)}}

ShowsWithinTimeout(timeline) ==
    \E k \in DOMAIN timeline.shows : timeline.shows[k] # {}

NoDetectorCall ==
    [col |-> 0, row |-> 0, waitTime |-> NoArg, captureScreenshot |-> NoArg,
     timeout |-> NoArg, tooltipSelectors |-> NoArg]

DetectOpts(waitTime, captureScreenshot) ==
    [waitTime |-> waitTime, captureScreenshot |-> captureScreenshot]

DetectOptions == {DetectOpts(NoArg, NoArg), DetectOpts(Arg(100), Arg(TRUE))}

\* the cell of the unit test, and the first cell
DetectCells == {Cell(1, 2), Cell(0, 0)}

WaitOpts(timeout, tooltipSelectors) ==
    [timeout |-> timeout, tooltipSelectors |-> tooltipSelectors]

WaitOptions ==
    {WaitOpts(timeout, tooltipSelectors) :
        timeout \in {NoArg, Arg(1000)},
        tooltipSelectors \in {NoArg} \cup {Arg(SubSeq(DefaultSelectors, 1, m)) :
                                              m \in 0..MaxSelectors}}

\* a call made on the page or on the hover function
Called(op, arg) == [op |-> op, arg |-> arg]

\* an error thrown by a collaborator
Failure(message) == [message |-> message]

HoverError == Failure("hover error")

WaitError == Failure("waitForTimeout error")

ScreenshotError == Failure("screenshot error")

\* new Error(`No tooltip found within ${timeout}ms using selectors: ...`)
TooltipTimeout(timeout, tooltipSelectors) ==
    [message |-> "No tooltip found within", timeout |-> timeout,
     selectors |-> tooltipSelectors]

DetectorInit ==
    /\ dOp = "none"
    /\ dCall = NoDetectorCall
    /\ dPage = NoMatch
    /\ dTimeline = NoTimeline
    /\ dLog = <<>>
    /\ dOutcome = "none"
    /\ dResult = <<>>
    /\ dError = <<>>

DetectorOff == DetectorInit

DetectorOthers ==
    <<withinVars, grid, box, mouseVars, samplerVars, scanVars, overlayVars, facadeVars, stepsVars>>

DetectorThrow(log, error) ==
    /\ dLog' = log
    /\ dOutcome' = "threw"
    /\ dError' = <<error>>
    /\ dResult' = <<>>

DetectorSettle(log, result) ==
    /\ dLog' = log
    /\ dOutcome' = "returned"
    /\ dResult' = <<result>>
    /\ dError' = <<>>

\* hoverCellAndCaptureTooltip(hoverFn, col, row, options): env is what fails
\* ("none", "hoverFn", "waitForTimeout", "screenshot")
HoverCellAndCaptureTooltip(col, row, options, page, env) ==
    /\ dOp = "none"
    /\ dOp' = "capture"
    /\ dCall' = [NoDetectorCall EXCEPT !.col = col, !.row = row,
                                       !.waitTime = options.waitTime,
                                       !.captureScreenshot = options.captureScreenshot]
    /\ dPage' = page
    /\ LET tooltipInfo == captureTooltip(page)
           shot == Opt(options.captureScreenshot, FALSE) /\ tooltipInfo.visible
           hover == Called("hoverFn", [col |-> col, row |-> row, options |-> DetectHover])
           wait == Called("waitForTimeout", Opt(options.waitTime, DefaultWaitTime))
           screenshot == Called("screenshot", "png")
       IN  /\ env = "screenshot" => shot
           /\ IF env = "hoverFn" THEN DetectorThrow(<<hover>>, HoverError)
              ELSE IF env = "waitForTimeout" THEN DetectorThrow(<<hover, wait>>, WaitError)
              ELSE IF env = "screenshot"
              THEN DetectorThrow(<<hover, wait, screenshot>>, ScreenshotError)
              ELSE DetectorSettle(<<hover, wait>> \o (IF shot THEN <<screenshot>> ELSE <<>>),
                                  [visible |-> tooltipInfo.visible,
                                   selector |-> tooltipInfo.selector,
                                   text |-> tooltipInfo.text,
                                   html |-> tooltipInfo.html,
                                   screenshot |-> IF shot THEN <<"png">> ELSE <<>>])
    /\ UNCHANGED <<dTimeline, DetectorOthers>>

\* getVisibleTooltips()
GetVisibleTooltips(page) ==
    /\ dOp = "none"
    /\ dOp' = "getVisible"
    /\ dPage' = page
    /\ DetectorSettle(<<>>, getVisibleTooltips(page))
    /\ UNCHANGED <<dCall, dTimeline, DetectorOthers>>

\* timeout / tooltipSelectors.length
waitBudgetMutWhole(timeout, n) == RInt(timeout)

waitBudget(timeout, n) == RDivInt(RInt(timeout), n)

\* waitForTooltip's loop from selector k on, the clock being in slot t: a
\* wait that times out ends its slot, a read that throws takes no time
RECURSIVE WaitFrom(_, _, _, _, _, _)
WaitFrom(tooltipSelectors, timeout, timeline, k, t, waits) ==
    IF k > Len(tooltipSelectors)
    THEN [waits |-> waits, outcome |-> "threw",
          error |-> <<TooltipTimeout(timeout, tooltipSelectors)>>, result |-> <<>>]
    ELSE LET waited == Append(waits, Called("waitFor",
                                  [selector |-> tooltipSelectors[k], state |-> "visible",
                                   timeout |-> waitBudget(timeout, Len(tooltipSelectors)),
                                   slot |-> t]))
         IN  IF t \notin timeline.shows[k]
             THEN WaitFrom(tooltipSelectors, timeout, timeline, k + 1, t + 1, waited)
             ELSE IF k \in timeline.detached
             THEN WaitFrom(tooltipSelectors, timeout, timeline, k + 1, t, waited)
             ELSE [waits |-> waited, outcome |-> "returned", error |-> <<>>,
                   result |-> <<[selector |-> tooltipSelectors[k],
                                 text |-> OrUndefined(Tip.text), html |-> Tip.html]>>]

\* waitForTooltip(options)
WaitForTooltip(options, timeline) ==
    /\ dOp = "none"
    /\ dOp' = "waitFor"
    /\ dCall' = [NoDetectorCall EXCEPT !.timeout = options.timeout,
                                       !.tooltipSelectors = options.tooltipSelectors]
    /\ dTimeline' = timeline
    /\ LET w == WaitFrom(Opt(options.tooltipSelectors, DefaultSelectors),
                         Opt(options.timeout, DefaultTimeout), timeline, 1, 1, <<>>)
       IN  /\ dLog' = w.waits
           /\ dOutcome' = w.outcome
           /\ dResult' = w.result
           /\ dError' = w.error
    /\ UNCHANGED <<dPage, DetectorOthers>>

\* the awaited call has settled and its caller goes on
DetectorReturn ==
    /\ dOp # "none"
    /\ dOp' = "none"
    /\ dCall' = NoDetectorCall
    /\ dPage' = NoMatch
    /\ dTimeline' = NoTimeline
    /\ dLog' = <<>>
    /\ dOutcome' = "none"
    /\ dResult' = <<>>
    /\ dError' = <<>>
    /\ UNCHANGED DetectorOthers

(***************************************************************************)
(* CanvasGrid: the fluent configuration (locator, nth, gridSize), the      *)
(* grid getter and attach().                                               *)
(***************************************************************************)
\* what a caller passes as a dimension: nothing, 0, a negative number, or
\* 1..MaxDim
Dimensions == {NoArg, Arg(0), Arg(-1)} \cup {Arg(n) : n \in 1..MaxDim}

\* JavaScript truthiness of an optional number
Truthy(v) == v # NoArg /\ v[1] # 0

CanvasSelector == "#chart"

\* the page at the time of a count(): how many elements match the selector
Matches == 0..(MaxNth + 1)

\* canvas.boundingBox() during attach(): null, or a box whose larger side
\* is on either side of a bucket's edge
AutoSizes == {399, 400, 899, 900, 901}

CanvasRects ==
    {NoBox} \cup {<<[x |-> 0, y |-> 0, width |-> w, height |-> 300]>> : w \in AutoSizes}
            \cup {<<[x |-> 0, y |-> 0, width |-> 300, height |-> 1000]>>}

Thrown(message, selector, index) ==
    [message |-> message, selector |-> selector, index |-> index]

NoLocatorError == Thrown("call .locator(selector) first", NoArg, 0)

NoElementsError(selector, index) == Thrown("no elements match", selector, index)

OverlayError == Thrown("overlay error", NoArg, 0)

\* the object's fields: _selector/_locator, _nth, _grid, whether _grid is
\* still the DEFAULT_GRID object, the components attach() created (the
\* canvas locator and the grid they were given), and whether the overlay is
\* in the page
Config(selector, index, g, isDefault, parts, injected) ==
    [selector |-> selector, nth |-> index, grid |-> g, isDefault |-> isDefault,
     parts |-> parts, injected |-> injected]

Parts(selector, index, g) == [canvas |-> [selector |-> selector, nth |-> index], grid |-> g]

\* a page operation and what it resolved to (a count; 0 for the others)
PageOp(op, result) == [op |-> op, result |-> result]

\* canvas(): the locator's nth element when count() finds one
canvas(cfg, matches) ==
    IF cfg.selector = NoArg THEN [ok |-> FALSE, error |-> NoLocatorError, log |-> <<>>]
    ELSE IF ~(cfg.nth < matches)
    THEN [ok |-> FALSE, error |-> NoElementsError(cfg.selector, cfg.nth),
          log |-> <<PageOp("count", 0)>>]
    ELSE [ok |-> TRUE, error |-> NoLocatorError, log |-> <<PageOp("count", 1)>>]

\* the buckets of autoGridIfNeeded
autoGrid(maxDim) ==
    IF maxDim < 400 THEN [cols |-> 6, rows |-> 4]
    ELSE IF maxDim < 900 THEN [cols |-> 10, rows |-> 8]
    ELSE [cols |-> 14, rows |-> 10]

\* autoGridIfNeeded(): [ok, error, log, cfg]
autoGridIfNeeded(cfg, matches, rect) ==
    IF ~cfg.isDefault THEN [ok |-> TRUE, error |-> NoLocatorError, log |-> <<>>, cfg |-> cfg]
    ELSE LET c == canvas(cfg, matches) IN
         IF ~c.ok THEN [ok |-> FALSE, error |-> c.error, log |-> c.log, cfg |-> cfg]
         ELSE IF rect = NoBox
         THEN [ok |-> TRUE, error |-> c.error, log |-> c.log \o <<PageOp("boundingBox", 0)>>, cfg |-> cfg]
         ELSE [ok |-> TRUE, error |-> c.error, log |-> c.log \o <<PageOp("boundingBox", 0)>>,
               cfg |-> [cfg EXCEPT !.grid = autoGrid(Max(rect[1].width, rect[1].height)),
                                   !.isDefault = FALSE]]

\* gridSize(cols, rows)
gridSize(cfg, cols, rows) ==
    IF Truthy(cols) /\ Truthy(rows)
    THEN [cfg EXCEPT !.grid = [cols |-> cols[1], rows |-> rows[1]], !.isDefault = FALSE]
    ELSE cfg

\* attach(): [outcome, error, log, cfg]; matches1 and rect are what the
\* page answers to autoGridIfNeeded, matches2 what it answers to attach's
\* own canvas(), overlayFails whether gridOverlay.attach() rejects
attachMutBuildsFirst(cfg, matches1, rect, matches2, overlayFails) ==
    LET a == autoGridIfNeeded(cfg, matches1, rect)
        c == canvas(a.cfg, matches2)
        built == [a.cfg EXCEPT !.parts = <<Parts(a.cfg.selector, a.cfg.nth, a.cfg.grid)>>]
    IN  IF ~a.ok
        THEN [outcome |-> "threw", error |-> <<a.error>>, log |-> a.log, cfg |-> built]
        ELSE IF ~c.ok
        THEN [outcome |-> "threw", error |-> <<c.error>>, log |-> a.log \o c.log, cfg |-> built]
        ELSE IF overlayFails
        THEN [outcome |-> "threw", error |-> <<OverlayError>>,
              log |-> a.log \o c.log \o <<PageOp("construct", 0), PageOp("inject", 0)>>, cfg |-> built]
        ELSE [outcome |-> "returned", error |-> <<>>,
              log |-> a.log \o c.log \o <<PageOp("construct", 0), PageOp("inject", 0)>>,
              cfg |-> [built EXCEPT !.injected = TRUE]]

attach(cfg, matches1, rect, matches2, overlayFails) ==
    LET a == autoGridIfNeeded(cfg, matches1, rect)
        c == canvas(a.cfg, matches2)
        built == [a.cfg EXCEPT !.parts = <<Parts(a.cfg.selector, a.cfg.nth, a.cfg.grid)>>]
    IN  IF ~a.ok
        THEN [outcome |-> "threw", error |-> <<a.error>>, log |-> a.log, cfg |-> a.cfg]
        ELSE IF ~c.ok
        THEN [outcome |-> "threw", error |-> <<c.error>>, log |-> a.log \o c.log, cfg |-> a.cfg]
        ELSE IF overlayFails
        THEN [outcome |-> "threw", error |-> <<OverlayError>>,
              log |-> a.log \o c.log \o <<PageOp("construct", 0), PageOp("inject", 0)>>, cfg |-> built]
        ELSE [outcome |-> "returned", error |-> <<>>,
              log |-> a.log \o c.log \o <<PageOp("construct", 0), PageOp("inject", 0)>>,
              cfg |-> [built EXCEPT !.injected = TRUE]]

(***************************************************************************)
(* CanvasGrid: the calls as actions on one object.                         *)
(***************************************************************************)
\* a call: its name, its numeric arguments, each absent or given, and what
\* canvas.boundingBox() resolved to during it
FacadeCall(name, args, rect) == [name |-> name, args |-> args, rect |-> rect]

NoFacadeCall == FacadeCall("none", <<>>, NoBox)

\* constructor(page)
FacadeInit ==
    /\ cConfig = Config(NoArg, 0, DEFAULT_GRID, TRUE, <<>>, FALSE)
    /\ cCall = NoFacadeCall
    /\ cOutcome = "none"
    /\ cError = <<>>
    /\ cLog = <<>>

FacadeOff == FacadeInit

FacadeOthers ==
    <<withinVars, grid, box, mouseVars, samplerVars, scanVars, overlayVars, detectorVars,
      stepsVars>>

\* a synchronous configuration call returns this
Configure(call, cfg) ==
    /\ cOutcome = "none"
    /\ cCall' = call
    /\ cConfig' = cfg
    /\ cOutcome' = "returned"
    /\ cError' = <<>>
    /\ cLog' = <<>>
    /\ UNCHANGED FacadeOthers

Locator(selector) ==
    Configure(FacadeCall("locator", <<>>, NoBox), [cConfig EXCEPT !.selector = <<selector>>])

Nth(index) == Configure(FacadeCall("nth", <<Arg(index)>>, NoBox), [cConfig EXCEPT !.nth = index])

GridSize(cols, rows) ==
    Configure(FacadeCall("gridSize", <<cols, rows>>, NoBox), gridSize(cConfig, cols, rows))

Attach(matches1, rect, matches2, overlayFails) ==
    LET r == attach(cConfig, matches1, rect, matches2, overlayFails) IN
    /\ cOutcome = "none"
    /\ cCall' = FacadeCall("attach", <<>>, rect)
    /\ cConfig' = r.cfg
    /\ cOutcome' = r.outcome
    /\ cError' = r.error
    /\ cLog' = r.log
    /\ UNCHANGED FacadeOthers

\* the call has settled and its caller goes on
FacadeReturn ==
    /\ cOutcome # "none"
    /\ cCall' = NoFacadeCall
    /\ cOutcome' = "none"
    /\ cError' = <<>>
    /\ cLog' = <<>>
    /\ UNCHANGED <<cConfig, FacadeOthers>>

(***************************************************************************)
(* GridScanner: what the environment does to one loop iteration.           *)
(***************************************************************************)
\* callbackThrows: the progress callback throws; lookupFails: the canvas has
\* lost its bounding box; moveFails: the moveFails-th mouse.move of the hover
\* throws (0: none); queryFails: the wait or the tooltip query rejects; dom:
\* the page after the hover; pauseFails: the pause after the cell rejects;
\* sample: what colorSampler.sampleCell does.
CalmEnv ==
    [callbackThrows |-> FALSE, lookupFails |-> FALSE, moveFails |-> 0,
     queryFails |-> FALSE, dom |-> 1, pauseFails |-> FALSE, sample |-> "color"]

\* a fault, while the page shows a tooltip (one left by an earlier hover)
Faults ==
    {[CalmEnv EXCEPT !.lookupFails = TRUE, !.dom = 2],
     [CalmEnv EXCEPT !.moveFails = 1, !.dom = 2],
     [CalmEnv EXCEPT !.queryFails = TRUE, !.dom = 2]}

\* a page other than the empty one, or a fault
HoverEvents == {[CalmEnv EXCEPT !.dom = d] : d \in 2..Len(Doms)} \cup Faults

\* the pointer's move away throws
AwayFails(moveFails) == /\ moveFails => gEvents < MaxEvents
                        /\ gEvents' = gEvents + (IF moveFails THEN 1 ELSE 0)

ScanAllEvents ==
    HoverEvents \cup {[CalmEnv EXCEPT !.callbackThrows = TRUE],
                      [CalmEnv EXCEPT !.pauseFails = TRUE]}

SelectEvents == HoverEvents \cup {[CalmEnv EXCEPT !.pauseFails = TRUE]}

HasAnyEvents ==
    HoverEvents \cup {[CalmEnv EXCEPT !.sample = "threw"],
                      [CalmEnv EXCEPT !.sample = "hung"]}

CellEnvs(events) == {CalmEnv} \cup (IF gEvents < MaxEvents THEN events ELSE {})

Counted(env) == gEvents + (IF env = CalmEnv THEN 0 ELSE 1)

\* the bounding box a cell-center lookup gets
LookupOf(env) == IF env.lookupFails THEN NoBox ELSE gLookup

\* a call made on a collaborator
Logged(op, col, row, outcome, seen) ==
    [op |-> op, col |-> col, row |-> row, outcome |-> outcome, seen |-> seen]

CallbackError == "callback error"

PauseError == "pause error"

QueryError == "query error"

\* The cell after (row, col) in for (row ...) for (col = first; col <= last; ...)
AdvanceMutStaysRight(row, col, first, last) ==
    IF col < last THEN [row |-> row, col |-> col + 1]
    ELSE [row |-> row + 1, col |-> last]

Advance(row, col, first, last) ==
    IF col < last THEN [row |-> row, col |-> col + 1]
    ELSE [row |-> row + 1, col |-> first]

(***************************************************************************)
(* GridScanner: no call in progress.                                       *)
(***************************************************************************)
NoScanCall ==
    [skipEmptyCells |-> NoArg, progressCallback |-> FALSE, maxCellsToCheck |-> NoArg,
     startCol |-> 0, startRow |-> 0, endCol |-> 0, endRow |-> 0,
     includeCoordinates |-> NoArg, via |-> "none"]

ScanInit ==
    /\ gOp = "none"
    /\ gPc = "idle"
    /\ gLookup = NoBox
    /\ gCall = NoScanCall
    /\ gRow = 0
    /\ gCol = 0
    /\ gCells = <<>>
    /\ gIdx = 1
    /\ gProcessed = 0
    /\ gResults = <<>>
    /\ gWithText = 0
    /\ gLog = <<>>
    /\ gEvents = 0
    /\ gOutcome = "none"
    /\ gError = "none"
    /\ gReport = <<>>

ScanOff == ScanInit

ScanOthers == <<withinVars, grid, box, samplerVars, mCall, mLookups, mEvents, mOutcome, mCenter,
                mFaults,
                restVars>>

\* the call begins
Begin(op, lookup, call, row, col, cells) ==
    /\ gPc = "idle"
    /\ gOp' = op
    /\ gPc' = "loop"
    /\ gLookup' = lookup
    /\ gCall' = call
    /\ gRow' = row
    /\ gCol' = col
    /\ gCells' = cells
    /\ UNCHANGED <<gIdx, gProcessed, gResults, gWithText, gLog, gEvents, gOutcome,
                   gError, gReport, mStored, ScanOthers>>

\* the call throws
Throw(error) ==
    /\ gPc' = "done"
    /\ gOutcome' = "threw"
    /\ gError' = error
    /\ UNCHANGED gReport

\* the call returns
Return(report) ==
    /\ gPc' = "done"
    /\ gOutcome' = "returned"
    /\ gReport' = <<report>>
    /\ UNCHANGED gError

\* the loop goes on with the next cell
Continue(next) ==
    /\ gRow' = next.row
    /\ gCol' = next.col
    /\ UNCHANGED <<gPc, gOutcome, gError, gReport>>

(***************************************************************************)
(* GridScanner.scanAllCellsForTooltips(options).                           *)
(***************************************************************************)
\* the cell's entry of results: what the try block made of cellResult
ScanCellResultMutKeepsTooltip(col, row, threw, tooltips) ==
    [col |-> col, row |-> row,
     hasTooltip |-> tooltips # <<>>,
     tooltipText |-> IF tooltips # <<>> THEN tooltips[1].text ELSE <<>>,
     colorTestingDisabled |-> ~threw]

ScanCellResult(col, row, threw, tooltips) ==
    [col |-> col, row |-> row,
     hasTooltip |-> ~threw /\ tooltips # <<>>,
     tooltipText |-> IF ~threw /\ tooltips # <<>> THEN tooltips[1].text ELSE <<>>,
     colorTestingDisabled |-> ~threw]

HasTooltip(r) == r.hasTooltip

HasDomTooltip(r) == r.hasTooltip /\ r.tooltipText # <<>>

RECURSIVE CellsOf(_)
CellsOf(results) ==
    IF results = <<>> THEN <<>>
    ELSE <<Cell(Head(results).col, Head(results).row)>> \o CellsOf(Tail(results))

ScanReportMutCountsTexts(processed, results) ==
    [totalCells |-> processed,
     cellsWithTooltips |-> Len(SelectSeq(results, HasDomTooltip)),
     results |-> results,
     colorTestingDisabled |-> TRUE,
     summary |-> [hasAnyTooltips |-> \E i \in 1..Len(results) : results[i].hasTooltip,
                  tooltipCells |-> CellsOf(SelectSeq(results, HasTooltip)),
                  domTooltips |-> Len(SelectSeq(results, HasDomTooltip)),
                  canvasTooltips |-> 0]]

ScanReport(processed, results) ==
    [totalCells |-> processed,
     cellsWithTooltips |-> Len(SelectSeq(results, HasTooltip)),
     results |-> results,
     colorTestingDisabled |-> TRUE,
     summary |-> [hasAnyTooltips |-> \E i \in 1..Len(results) : results[i].hasTooltip,
                  tooltipCells |-> CellsOf(SelectSeq(results, HasTooltip)),
                  domTooltips |-> Len(SelectSeq(results, HasDomTooltip)),
                  canvasTooltips |-> 0]]

ScanAllCellsForTooltips(lookup, skipEmptyCells, progressCallback) ==
    Begin("scanAll", lookup,
          [NoScanCall EXCEPT !.skipEmptyCells = skipEmptyCells,
                             !.progressCallback = progressCallback],
          0, 0, <<>>)

\* One iteration of the loops: baselines is empty, so baseline is undefined.
ScanAllCell(env) ==
    /\ gOp = "scanAll"
    /\ gPc = "loop"
    /\ gRow < grid.rows
    /\ env \in CellEnvs(ScanAllEvents)
    /\ env.callbackThrows => gCall.progressCallback
    /\ env.lookupFails => gLookup # NoBox
    /\ LET skipEmptyCells == Opt(gCall.skipEmptyCells, TRUE)
           h == hoverCell(LookupOf(env), gCol, gRow, ScanHover,
                          HoverEnv(FALSE, FALSE, env.moveFails), mStored)
           threw == h.outcome # "ok" \/ env.queryFails
           tooltips == getVisibleTooltips(Doms[env.dom])
           called == IF gCall.progressCallback
                     THEN <<Logged("callback", gCol, gRow,
                                   IF env.callbackThrows THEN CallbackError ELSE "ok",
                                   <<gProcessed + 1, grid.cols * grid.rows>>)>>
                     ELSE <<>>
           tried == <<Logged("hover", gCol, gRow, h.outcome, <<>>)>>
                    \o (IF h.outcome # "ok" THEN <<>>
                        ELSE <<Logged("query", gCol, gRow,
                                      IF env.queryFails THEN QueryError ELSE "ok",
                                      IF env.queryFails THEN <<>> ELSE tooltips)>>)
       IN  IF skipEmptyCells
           THEN /\ env = CalmEnv
                /\ gProcessed' = gProcessed + 1
                /\ Continue(Advance(gRow, gCol, 0, grid.cols - 1))
                /\ UNCHANGED <<gResults, gLog, gEvents, mStored>>
           ELSE IF env.callbackThrows
           THEN /\ gLog' = gLog \o called
                /\ gEvents' = Counted(env)
                /\ Throw(CallbackError)
                /\ UNCHANGED <<gRow, gCol, gProcessed, gResults, mStored>>
           ELSE /\ gLog' = gLog \o called \o tried
                /\ gEvents' = Counted(env)
                /\ mStored' = h.stored
                /\ gResults' = Append(gResults, ScanCellResult(gCol, gRow, threw, tooltips))
                /\ gProcessed' = gProcessed + 1
                /\ IF env.pauseFails
                   THEN Throw(PauseError) /\ UNCHANGED <<gRow, gCol>>
                   ELSE Continue(Advance(gRow, gCol, 0, grid.cols - 1))
    /\ UNCHANGED <<gOp, gLookup, gCall, gCells, gIdx, gWithText, ScanOthers>>

\* After the loops: the pointer is moved away (a failure is ignored) and the
\* report is returned.
ScanAllFinishMutMoveFailureThrows(moveFails) ==
    /\ gOp = "scanAll"
    /\ gPc = "loop"
    /\ gRow >= grid.rows
    /\ AwayFails(moveFails)
    /\ gLog' = Append(gLog, Logged("away", 0, 0, IF moveFails THEN MouseError ELSE "ok", <<>>))
    /\ IF moveFails THEN Throw(MouseError) ELSE Return(ScanReport(gProcessed, gResults))
    /\ UNCHANGED <<gOp, gLookup, gCall, gRow, gCol, gCells, gIdx, gProcessed, gResults,
                   gWithText, mStored, ScanOthers>>

ScanAllFinish(moveFails) ==
    /\ gOp = "scanAll"
    /\ gPc = "loop"
    /\ gRow >= grid.rows
    /\ AwayFails(moveFails)
    /\ gLog' = Append(gLog, Logged("away", 0, 0, IF moveFails THEN MouseError ELSE "ok", <<>>))
    /\ Return(ScanReport(gProcessed, gResults))
    /\ UNCHANGED <<gOp, gLookup, gCall, gRow, gCol, gCells, gIdx, gProcessed, gResults,
                   gWithText, mStored, ScanOthers>>

(***************************************************************************)
(* GridScanner.hasAnyTooltips(options).                                    *)
(***************************************************************************)
\* maxCellsToCheck = Math.min(20, cols * rows)
DefaultMaxCells == 20

MaxCellsToCheck(g, maxCellsToCheck) ==
    IF maxCellsToCheck = NoArg THEN Min(DefaultMaxCells, g.cols * g.rows)
    ELSE maxCellsToCheck[1]

\* Math.floor(n / Math.sqrt(cap)), cap >= 1: the largest k with k * sqrt(cap) <= n
FloorDivSqrt(n, cap) ==
    CHOOSE k \in 0..n : k * k * cap <= n * n /\ (k + 1) * (k + 1) * cap > n * n

\* Math.max(1, Math.floor(n / Math.sqrt(cap))). With cap = 0 the quotient is
\* Infinity; a stride of n leaves the loop after its first iteration as
\* Infinity does.
Stride(n, cap) == IF cap = 0 THEN n ELSE Max(1, FloorDivSqrt(n, cap))

\* the loops that fill cellsToCheck, with their two breaks
RECURSIVE CellsToCheck(_, _, _, _, _, _, _)
CellsToCheck(g, cap, stepCol, stepRow, row, col, cells) ==
    IF row >= g.rows THEN cells
    ELSE IF col >= g.cols
    THEN IF Len(cells) >= cap THEN cells
         ELSE CellsToCheck(g, cap, stepCol, stepRow, row + stepRow, 0, cells)
    ELSE LET pushed == Append(cells, Cell(col, row)) IN
         IF Len(pushed) >= cap THEN pushed
         ELSE CellsToCheck(g, cap, stepCol, stepRow, row, col + stepCol, pushed)

cellsToCheck(g, maxCellsToCheck) ==
    LET cap == MaxCellsToCheck(g, maxCellsToCheck) IN
    CellsToCheck(g, cap, Stride(g.cols, cap), Stride(g.rows, cap), 0, 0, <<>>)

FoundMutLastTooltip(cell, tooltips) ==
    [found |-> TRUE, firstTooltipAt |-> <<cell>>,
     tooltipText |-> tooltips[Len(tooltips)].text]

Found(cell, tooltips) ==
    [found |-> TRUE, firstTooltipAt |-> <<cell>>, tooltipText |-> tooltips[1].text]

NotFound == [found |-> FALSE, firstTooltipAt |-> <<>>, tooltipText |-> <<>>]

HasAnyTooltips(lookup, maxCellsToCheck) ==
    Begin("hasAny", lookup, [NoScanCall EXCEPT !.maxCellsToCheck = maxCellsToCheck],
          0, 0, cellsToCheck(grid, maxCellsToCheck))

\* One iteration of for (const cell of cellsToCheck): the whole body is in the
\* try, and the catch goes on with the next cell.
HasAnyCell(env) ==
    /\ gOp = "hasAny"
    /\ gPc = "loop"
    /\ gIdx <= Len(gCells)
    /\ env \in CellEnvs(HasAnyEvents)
    /\ env.lookupFails => gLookup # NoBox
    /\ LET cell == gCells[gIdx]
           h == hoverCell(LookupOf(env), cell.col, cell.row, ScanHover,
                          HoverEnv(FALSE, FALSE, env.moveFails), mStored)
           tooltips == getVisibleTooltips(Doms[env.dom])
           sampled == <<Logged("sample", cell.col, cell.row, env.sample, <<>>)>>
           hovered == <<Logged("hover", cell.col, cell.row, h.outcome, <<>>)>>
           queried == <<Logged("query", cell.col, cell.row,
                               IF env.queryFails THEN QueryError ELSE "ok",
                               IF env.queryFails THEN <<>> ELSE tooltips)>>
       IN  /\ gEvents' = Counted(env)
           /\ IF env.sample = "hung"
              THEN /\ gLog' = gLog \o sampled
                   /\ gPc' = "awaitSample"
                   /\ UNCHANGED <<gIdx, gOutcome, gError, gReport, mStored>>
              ELSE IF env.sample = "threw"
              THEN /\ gLog' = gLog \o sampled
                   /\ gIdx' = gIdx + 1
                   /\ UNCHANGED <<gPc, gOutcome, gError, gReport, mStored>>
              ELSE IF h.outcome # "ok"
              THEN /\ gLog' = gLog \o sampled \o hovered
                   /\ mStored' = h.stored
                   /\ gIdx' = gIdx + 1
                   /\ UNCHANGED <<gPc, gOutcome, gError, gReport>>
              ELSE /\ gLog' = gLog \o sampled \o hovered \o queried
                   /\ mStored' = h.stored
                   /\ IF ~env.queryFails /\ tooltips # <<>>
                      THEN Return(Found(cell, tooltips)) /\ UNCHANGED gIdx
                      ELSE /\ gIdx' = gIdx + 1
                           /\ UNCHANGED <<gPc, gOutcome, gError, gReport>>
    /\ UNCHANGED <<gOp, gLookup, gCall, gRow, gCol, gCells, gProcessed, gResults,
                   gWithText, ScanOthers>>

HasAnyFinish(moveFails) ==
    /\ gOp = "hasAny"
    /\ gPc = "loop"
    /\ gIdx > Len(gCells)
    /\ AwayFails(moveFails)
    /\ gLog' = Append(gLog, Logged("away", 0, 0, IF moveFails THEN MouseError ELSE "ok", <<>>))
    /\ Return(NotFound)
    /\ UNCHANGED <<gOp, gLookup, gCall, gRow, gCol, gCells, gIdx, gProcessed, gResults,
                   gWithText, mStored, ScanOthers>>

(***************************************************************************)
(* GridScanner.selectCellsAndExtractText(options).                         *)
(***************************************************************************)
\* Validate bounds
RegionMutKeepsOrder(g, call) ==
    [startCol |-> Max(0, call.startCol),
     endCol |-> Min(g.cols - 1, call.endCol),
     startRow |-> Max(0, call.startRow),
     endRow |-> Min(g.rows - 1, call.endRow)]

Region(g, call) ==
    [startCol |-> Max(0, Min(call.startCol, call.endCol)),
     endCol |-> Min(g.cols - 1, Max(call.startCol, call.endCol)),
     startRow |-> Max(0, Min(call.startRow, call.endRow)),
     endRow |-> Min(g.rows - 1, Max(call.startRow, call.endRow))]

\* a cell's text: the tooltip's text, behind `(col,row): ` when coordinates
\* are included
Text(coords, text) == [coords |-> coords, text |-> text]

\* String.prototype.trim, on the texts of Doms
Trim(text) == IF text = " " THEN "" ELSE text

\* trim of a cell's text: a coordinate prefix keeps it non-empty
Trimmed(t) == Text(t.coords, Trim(t.text))

IsEmpty(t) == t.coords = <<>> /\ t.text = ""

\* the cell's entry of textContent, and whether cellsWithText is incremented
SelectCellResult(col, row, threw, info, includeCoordinates) ==
    LET hasText == ~threw /\ info.visible /\ info.text # <<>>
        coords == IF Opt(includeCoordinates, FALSE) THEN <<col, row>> ELSE <<>>
    IN  [col |-> col, row |-> row,
         text |-> IF hasText THEN <<Text(coords, info.text[1])>> ELSE <<>>,
         html |-> IF hasText THEN info.html ELSE <<>>,
         source |-> IF hasText THEN "tooltip" ELSE "none"]

HasText(r) == r.text # <<>> /\ ~IsEmpty(Trimmed(r.text[1]))

RECURSIVE TrimmedTexts(_)
TrimmedTexts(content) ==
    IF content = <<>> THEN <<>>
    ELSE <<Trimmed(Head(content).text[1])>> \o TrimmedTexts(Tail(content))

\* cellTexts.join(' | '), kept as the list of the joined texts; undefined
\* when there is none
CombinedText(content) ==
    LET cellTexts == TrimmedTexts(SelectSeq(content, HasText)) IN
    IF cellTexts = <<>> THEN <<>> ELSE <<cellTexts>>

SelectReport(region, totalCells, cellsWithText, content) ==
    [region |-> region, totalCells |-> totalCells, cellsWithText |-> cellsWithText,
     textContent |-> content, combinedText |-> CombinedText(content)]

TotalCells(region) ==
    (region.endCol - region.startCol + 1) * (region.endRow - region.startRow + 1)

SelectCellsAndExtractText(lookup, startCol, startRow, endCol, endRow, includeCoordinates) ==
    LET call == [NoScanCall EXCEPT !.startCol = startCol, !.startRow = startRow,
                                   !.endCol = endCol, !.endRow = endRow,
                                   !.includeCoordinates = includeCoordinates]
    IN  Begin("select", lookup, call, Region(grid, call).startRow,
              Region(grid, call).startCol, <<>>)

\* the loops have a cell to visit
SelectInside ==
    /\ gRow <= Region(grid, gCall).endRow
    /\ Region(grid, gCall).startCol <= Region(grid, gCall).endCol

SelectCell(env) ==
    /\ gOp = "select"
    /\ gPc = "loop"
    /\ SelectInside
    /\ env \in CellEnvs(SelectEvents)
    /\ env.lookupFails => gLookup # NoBox
    /\ LET region == Region(grid, gCall)
           h == hoverCell(LookupOf(env), gCol, gRow, DetectHover,
                          HoverEnv(FALSE, FALSE, env.moveFails), mStored)
           threw == h.outcome # "ok" \/ env.queryFails
           info == captureTooltip(Doms[env.dom])
           r == SelectCellResult(gCol, gRow, threw, info, gCall.includeCoordinates)
           tried == <<Logged("hover", gCol, gRow, h.outcome, <<>>)>>
                    \o (IF h.outcome # "ok" THEN <<>>
                        ELSE <<Logged("query", gCol, gRow,
                                      IF env.queryFails THEN QueryError ELSE "ok",
                                      IF env.queryFails THEN <<>> ELSE <<info>>)>>)
       IN  /\ gLog' = gLog \o tried
           /\ gEvents' = Counted(env)
           /\ mStored' = h.stored
           /\ gResults' = Append(gResults, r)
           /\ gWithText' = gWithText + (IF r.source = "tooltip" THEN 1 ELSE 0)
           /\ IF env.pauseFails
              THEN Throw(PauseError) /\ UNCHANGED <<gRow, gCol>>
              ELSE Continue(Advance(gRow, gCol, region.startCol, region.endCol))
    /\ UNCHANGED <<gOp, gLookup, gCall, gCells, gIdx, gProcessed, ScanOthers>>

\* result.textContent.map(cell => ({col: cell.col, text: cell.text, source:
\* cell.source})) of extractRowText, and with row for col of extractColumnText
RowCellTexts(content) ==
    [i \in 1..Len(content) |-> [col |-> content[i].col, text |-> content[i].text,
                                source |-> content[i].source]]

ColumnCellTexts(content) ==
    [i \in 1..Len(content) |-> [row |-> content[i].row, text |-> content[i].text,
                                source |-> content[i].source]]

\* result.textContent[0]?.text || null of extractCellText: null is <<>>
CellText(content) ==
    IF content = <<>> \/ content[1].text = <<>> \/ content[1].text[1].text = ""
    THEN <<>>
    ELSE <<content[1].text[1].text>>

\* what extractCellText, extractRowText and extractColumnText return of the
\* result of their selectCellsAndExtractText call
Extracted(call, result) ==
    CASE call.via = "row" ->
             <<[row |-> call.startRow, cellTexts |-> RowCellTexts(result.textContent),
                combinedText |-> result.combinedText]>>
      [] call.via = "column" ->
             <<[col |-> call.startCol, cellTexts |-> ColumnCellTexts(result.textContent),
                combinedText |-> result.combinedText]>>
      [] call.via = "cell" -> <<[text |-> CellText(result.textContent)]>>
      [] OTHER -> <<>>

\* the selectCellsAndExtractText call of an extract method, which returns
\* what the method makes of its result
ExtractVia(via, lookup, startCol, startRow, endCol, endRow, includeCoordinates) ==
    LET call == [NoScanCall EXCEPT !.startCol = startCol, !.startRow = startRow,
                                   !.endCol = endCol, !.endRow = endRow,
                                   !.includeCoordinates = includeCoordinates,
                                   !.via = via]
    IN  Begin("select", lookup, call, Region(grid, call).startRow,
              Region(grid, call).startCol, <<>>)

ExtractCellText(lookup, col, row) ==
    ExtractVia("cell", lookup, col, row, col, row, NoArg)

ExtractRowTextMutStopsBeforeLastColumn(lookup, row, includeCoordinates) ==
    ExtractVia("row", lookup, 0, row, grid.cols - 2, row, includeCoordinates)

ExtractRowText(lookup, row, includeCoordinates) ==
    ExtractVia("row", lookup, 0, row, grid.cols - 1, row, includeCoordinates)

ExtractColumnText(lookup, col, includeCoordinates) ==
    ExtractVia("column", lookup, col, 0, col, grid.rows - 1, includeCoordinates)

SelectFinish(moveFails) ==
    /\ gOp = "select"
    /\ gPc = "loop"
    /\ ~SelectInside
    /\ AwayFails(moveFails)
    /\ gLog' = Append(gLog, Logged("away", 0, 0, IF moveFails THEN MouseError ELSE "ok", <<>>))
    /\ LET result == SelectReport(Region(grid, gCall), TotalCells(Region(grid, gCall)),
                                  gWithText, gResults)
       IN  /\ gPc' = "done"
           /\ gOutcome' = "returned"
           /\ gReport' = <<result>> \o Extracted(gCall, result)
           /\ UNCHANGED gError
    /\ UNCHANGED <<gOp, gLookup, gCall, gRow, gCol, gCells, gIdx, gProcessed, gResults,
                   gWithText, mStored, ScanOthers>>

(***************************************************************************)
(* GridScanner.scanAllCellsForTooltips with skipEmptyCells = false, await  *)
(* by await: every operation the scan starts on a collaborator (hoverCell, *)
(* waitForTimeout, getVisibleTooltips, mouse.move) is in flight from its   *)
(* start until the page settles it, and the scan is suspended on the       *)
(* operation it awaits.                                                    *)
(***************************************************************************)
\* an operation started for the cell'th cell in row-major order
Started(name, cell) == [name |-> name, cell |-> cell]

\* the scan's position: where it resumes, where it resumes when the awaited
\* operation rejects, and the operation it awaits (none: it is running)
Running(at) == [at |-> at, catch |-> at, op |-> <<>>]

\* hoverCell is called without await
SuspendMutHoverNotAwaited(op, at, catch) ==
    [at |-> at, catch |-> catch, op |-> IF op.name = "hover" THEN <<>> ELSE <<op>>]

\* await op
Suspend(op, at, catch) == [at |-> at, catch |-> catch, op |-> <<op>>]

StepsInit ==
    /\ stPc = Running("idle")
    /\ stCell = 0
    /\ stResults = <<>>
    /\ stInFlight = {}
    /\ stOutcome = "none"

StepsOff == StepsInit

StepsOthers ==
    <<withinVars, grid, box, mouseVars, samplerVars, scanVars, overlayVars, detectorVars,
      facadeVars>>

\* the scan starts op and goes on as `pc` says
Start(op, pc) ==
    /\ stInFlight' = stInFlight \cup {op}
    /\ stPc' = pc

\* The scan runs from where it is to its next await.
ScanStep ==
    /\ stPc.op = <<>>
    /\ CASE stPc.at = "idle" ->
                /\ stPc' = Running("top")
                /\ UNCHANGED <<stCell, stResults, stInFlight, stOutcome>>
         [] stPc.at = "top" /\ stCell < grid.cols * grid.rows ->
                \* try { await hoverCell(col, row, ...)
                /\ Start(Started("hover", stCell),
                         Suspend(Started("hover", stCell), "hovered", "caught"))
                /\ UNCHANGED <<stCell, stResults, stOutcome>>
         [] stPc.at = "hovered" ->
                \* await page.waitForTimeout(hoverDelay)
                /\ Start(Started("wait", stCell),
                         Suspend(Started("wait", stCell), "waited", "caught"))
                /\ UNCHANGED <<stCell, stResults, stOutcome>>
         [] stPc.at = "waited" ->
                \* await tooltipDetector.getVisibleTooltips()
                /\ Start(Started("query", stCell),
                         Suspend(Started("query", stCell), "queried", "caught"))
                /\ UNCHANGED <<stCell, stResults, stOutcome>>
         [] stPc.at \in {"queried", "caught"} ->
                \* results.push(cellResult); processed++; await waitForTimeout(10)
                /\ stResults' = Append(stResults, [cell |-> stCell,
                                                   threw |-> stPc.at = "caught"])
                /\ Start(Started("pause", stCell),
                         Suspend(Started("pause", stCell), "next", "throw"))
                /\ UNCHANGED <<stCell, stOutcome>>
         [] stPc.at = "next" ->
                /\ stCell' = stCell + 1
                /\ stPc' = Running("top")
                /\ UNCHANGED <<stResults, stInFlight, stOutcome>>
         [] stPc.at = "top" /\ stCell >= grid.cols * grid.rows ->
                \* try { await page.mouse.move(0, 0)
                /\ Start(Started("away", stCell),
                         Suspend(Started("away", stCell), "moved", "return"))
                /\ UNCHANGED <<stCell, stResults, stOutcome>>
         [] stPc.at = "moved" ->
                \* await page.waitForTimeout(100) } catch { }
                /\ Start(Started("settle", stCell),
                         Suspend(Started("settle", stCell), "return", "return"))
                /\ UNCHANGED <<stCell, stResults, stOutcome>>
         [] stPc.at = "return" ->
                /\ stPc' = Running("done")
                /\ stOutcome' = "returned"
                /\ UNCHANGED <<stCell, stResults, stInFlight>>
         [] stPc.at = "throw" ->
                /\ stPc' = Running("done")
                /\ stOutcome' = "threw"
                /\ UNCHANGED <<stCell, stResults, stInFlight>>
         [] OTHER -> FALSE
    /\ UNCHANGED StepsOthers

\* The page settles an operation in flight; the scan resumes when it is the
\* one it awaits.
Settled(op, rejects) ==
    /\ op \in stInFlight
    /\ stInFlight' = stInFlight \ {op}
    /\ stPc' = IF stPc.op = <<op>>
               THEN Running(IF rejects THEN stPc.catch ELSE stPc.at)
               ELSE stPc
    /\ UNCHANGED <<stCell, stResults, stOutcome, StepsOthers>>

\* the caller has the scan's report, or its error
StepsReturn ==
    /\ stPc = Running("done")
    /\ stInFlight = {}
    /\ stPc' = Running("idle")
    /\ stCell' = 0
    /\ stResults' = <<>>
    /\ stOutcome' = "none"
    /\ UNCHANGED <<stInFlight, StepsOthers>>

(***************************************************************************)
(* GridScanner: the calls a test makes on a grid of at most MaxCells cells.*)
(***************************************************************************)
SkipOptions == {NoArg, Arg(TRUE), Arg(FALSE)}

Caps == {NoArg} \cup {Arg(n) : n \in 0..MaxCells}

\* the unit tests' grid
ScanTestGrid == [cols |-> 3, rows |-> 2]

\* the columns and rows the extract methods are called with: those of the
\* grid, and one on either side of it
ExtractCols == -1..grid.cols

ExtractRows == -1..grid.rows

SelectCall(lookup, startCol, startRow, endCol, endRow, includeCoordinates) ==
    [lookup |-> lookup, startCol |-> startCol, startRow |-> startRow,
     endCol |-> endCol, endRow |-> endRow, includeCoordinates |-> includeCoordinates]

\* the whole grid, in order, reversed, with the columns reversed, reaching
\* past the grid, and entirely outside it; two columns beyond the grid over
\* all its rows; with coordinates; without a bounding box
SelectCalls ==
    LET c == grid.cols - 1
        r == grid.rows - 1
    IN  {SelectCall(<<box>>, 0, 0, c, r, NoArg),
         SelectCall(<<box>>, c, r, 0, 0, NoArg),
         SelectCall(<<box>>, c, 0, 0, r, NoArg),
         SelectCall(<<box>>, -1, -1, c + 1, r + 1, NoArg),
         SelectCall(<<box>>, c + 1, r + 1, c + 2, r + 2, NoArg),
         SelectCall(<<box>>, c + 2, 0, c + 3, r, NoArg),
         SelectCall(<<box>>, 0, 0, c, r, Arg(TRUE)),
         SelectCall(NoBox, 0, 0, c, r, Arg(FALSE))}

(***************************************************************************)
(* Claims about the GridScanner (checked under Spec).                      *)
(***************************************************************************)
\* the cells of a g.cols x g.rows grid, row outer, column inner
RowMajor(g) == [i \in 1..(g.cols * g.rows) |-> Cell((i - 1) % g.cols, (i - 1) \div g.cols)]

(* C1: scanAllCellsForTooltips, for every grid and every combination of    *)
(* options (the defaults included, where skipEmptyCells is true), hovers   *)
(* each of the cols*rows cells exactly once and returns a results list     *)
(* with exactly one entry per cell.                                        *)
C1_Hovered == CellsOf(SelectSeq(gLog, LAMBDA e : e.op = "hover"))

C1_EveryCellHoveredOnce ==
    (gOp = "scanAll" /\ gOutcome = "returned") =>
        /\ C1_Hovered = RowMajor(grid)
        /\ CellsOf(gReport[1].results) = RowMajor(grid)

(* C2: in scanAllCellsForTooltips, selectCellsAndExtractText and           *)
(* hasAnyTooltips the sequence of cells hovered, and of results recorded,  *)
(* is strictly increasing in (row, col) lexicographic order, so no cell is *)
(* visited twice; a full scan visits every cell of the grid in that order, *)
(* on a 3x2 grid (0,0),(1,0),(2,0),(0,1),(1,1),(2,1).                      *)
C2_Before(a, b) == a.row < b.row \/ (a.row = b.row /\ a.col < b.col)

C2_Increasing(cells) == \A i \in 1..(Len(cells) - 1) : C2_Before(cells[i], cells[i + 1])

C2_Hovered == CellsOf(SelectSeq(gLog, LAMBDA e : e.op = "hover"))

C2_FullScan ==
    /\ gOutcome = "returned"
    /\ \/ gOp = "scanAll" /\ gCall.skipEmptyCells = Arg(FALSE)
       \/ gOp = "select" /\ Region(grid, gCall) =
              [startCol |-> 0, endCol |-> grid.cols - 1,
               startRow |-> 0, endRow |-> grid.rows - 1]

C2_RowMajorOrder ==
    /\ C2_Increasing(C2_Hovered)
    /\ C2_Increasing(CellsOf(gResults))
    /\ C2_FullScan => C2_Hovered = RowMajor(grid) /\ CellsOf(gResults) = RowMajor(grid)

C2_Witness ==
    /\ gOp = "scanAll"
    /\ gOutcome = "returned"
    /\ grid = ScanTestGrid
    /\ C2_Hovered = <<Cell(0, 0), Cell(1, 0), Cell(2, 0), Cell(0, 1), Cell(1, 1), Cell(2, 1)>>
    /\ CellsOf(gReport[1].results) = C2_Hovered

(* C3: when hoverCell or the tooltip query throws for a cell of            *)
(* scanAllCellsForTooltips, the exception does not escape the scan: the    *)
(* cell is recorded with hasTooltip = false and no tooltipText, every      *)
(* later cell is still visited, and every other cell's result is what its  *)
(* own tooltip query returned.                                             *)
C3_Calls(op, r) == SelectSeq(gLog, LAMBDA e : e.op = op /\ e.col = r.col /\ e.row = r.row)

C3_Recorded(r) ==
    LET hover == C3_Calls("hover", r)
        query == C3_Calls("query", r)
    IN  /\ Len(hover) = 1
        /\ IF hover[1].outcome # "ok"
           THEN query = <<>> /\ ~r.hasTooltip /\ r.tooltipText = <<>>
           ELSE /\ Len(query) = 1
                /\ IF query[1].outcome # "ok"
                   THEN ~r.hasTooltip /\ r.tooltipText = <<>>
                   ELSE /\ r.hasTooltip = (query[1].seen # <<>>)
                        /\ r.tooltipText =
                               IF query[1].seen # <<>> THEN query[1].seen[1].text ELSE <<>>

C3_CellFailureIsCaught ==
    gOp = "scanAll" =>
        /\ gOutcome = "threw" => gError \in {CallbackError, PauseError}
        /\ \A i \in 1..Len(gResults) : C3_Recorded(gResults[i])
        /\ (gCall.skipEmptyCells = Arg(FALSE) /\ gOutcome # "threw") =>
               CellsOf(gResults) = SubSeq(RowMajor(grid), 1, gRow * grid.cols + gCol)
        /\ (gCall.skipEmptyCells = Arg(FALSE) /\ gOutcome = "returned") =>
               CellsOf(gReport[1].results) = RowMajor(grid)

C3_Witness ==
    /\ gOp = "scanAll"
    /\ gOutcome = "returned"
    /\ Len(gReport[1].results) = grid.cols * grid.rows
    /\ \E i \in 1..(Len(gResults) - 1) :
           /\ C3_Calls("hover", gResults[i])[1].outcome = MouseError
           /\ ~gResults[i].hasTooltip
           /\ C3_Calls("query", gResults[i + 1]) # <<>>

(* C4: an exception thrown by the progressCallback passed to               *)
(* scanAllCellsForTooltips does not propagate into the scan: the scan      *)
(* still processes the current and all remaining cells and returns its     *)
(* report.                                                                 *)
C4_CallbackThrew == \E i \in 1..Len(gLog) : gLog[i].op = "callback" /\ gLog[i].outcome = CallbackError

C4_CallbackThrowIsSwallowed ==
    (gOp = "scanAll" /\ C4_CallbackThrew /\ gPc = "done") =>
        /\ gOutcome = "returned"
        /\ CellsOf(gReport[1].results) = RowMajor(grid)

(* C5: when the canvas has no bounding box, a scan operation               *)
(* (scanAllCellsForTooltips with skipEmptyCells = false,                   *)
(* selectCellsAndExtractText, hasAnyTooltips) aborts with 'no canvas bbox' *)
(* before processing any cell, instead of returning a report.              *)
C5_NoBBoxAbortsTheScan ==
    (/\ gPc = "done"
     /\ gLookup = NoBox
     /\ gOp = "scanAll" => gCall.skipEmptyCells = Arg(FALSE)) =>
        /\ gOutcome = "threw"
        /\ gError = NoCanvasBBox
        /\ gResults = <<>>

(* C7: in sampleCell, when the direct read fails - the pixel read throws, *)
(* or neither a WebGL nor a 2D context can be obtained - the call neither  *)
(* hangs nor propagates the failure: it goes on to the capture fallback    *)
(* and settles with the fallback's outcome. Stated so that a finite run    *)
(* refutes it: once the direct read has failed, the call has reached the   *)
(* fallback or it can still take a step.                                   *)
C7_DirectFailureFallsBack ==
    sDirect \in {"readThrew", "noContext"} =>
        \/ sPc \in {"boundingBox", "screenshot", "decode", "done"}
        \/ ENABLED (\E lookup \in Lookup : BoundingBox(lookup))

(* C8: the outcome of sampleCell follows the ordered chain: a null handle  *)
(* throws 'canvas not found' before any evaluation, bounding-box query or  *)
(* screenshot; else a colour from the direct read is returned with no      *)
(* bounding-box query or screenshot; else the capture tier has run and the *)
(* call returns its colour, or fails on a missing bounding box ('no canvas *)
(* bbox') or when the capture or its decoding fails.                       *)
C8_Logged(entry) == \E i \in 1..Len(sLog) : sLog[i] = entry

C8_StrategyChain ==
    sPc = "done" =>
        IF C8_Logged("elementHandle:null")
        THEN sOutcome = "canvas not found" /\ sLog = <<"elementHandle:null">>
        ELSE IF sDirect = "color"
        THEN /\ sOutcome = "returned"
             /\ sRgba # <<>>
             /\ sResult = sRgba
             /\ \A e \in {"boundingBox", "boundingBox:null", "screenshot",
                          "screenshot:failed", "decode", "decode:failed"} : ~C8_Logged(e)
        ELSE /\ C8_Logged("boundingBox") \/ C8_Logged("boundingBox:null")
             /\ IF C8_Logged("boundingBox:null") THEN sOutcome = "no canvas bbox"
                ELSE IF C8_Logged("screenshot:failed") THEN sOutcome = "screenshot failed"
                ELSE IF C8_Logged("decode:failed") THEN sOutcome = "decode failed"
                ELSE /\ sOutcome = "returned"
                     /\ C8_Logged("screenshot")
                     /\ sShot \in Images
                     /\ sResult = <<CaptureRead(sShot, sClip)>>

C8_Witness ==
    /\ sPc = "done"
    /\ sDirect = "rejected"
    /\ sOutcome = "returned"
    /\ sLog = <<"elementHandle", "evaluate:rejected", "boundingBox", "screenshot", "decode">>

(* C6: when a bounding-box lookup of clickCell, doubleClickCell,           *)
(* rightClickCell, hoverCell or dragFromCellToCell finds no box, the call  *)
(* throws 'no canvas bbox' having issued no mouse primitive; for a drag    *)
(* also when only the destination's lookup fails.                          *)
C6_Pointing ==
    {"clickCell", "doubleClickCell", "rightClickCell", "hoverCell", "dragFromCellToCell"}

C6_NoEventBeforeBBoxThrow ==
    (mCall.name \in C6_Pointing /\ \E i \in 1..Len(mLookups) : mLookups[i] = <<>>)
        => (mOutcome = "no canvas bbox" /\ mEvents = <<>>)

C6_Witness ==
    /\ mCall.name = "dragFromCellToCell"
    /\ Len(mLookups) = 2
    /\ mLookups[1] # <<>>
    /\ mLookups[2] = <<>>
    /\ mOutcome = "no canvas bbox"

(* C10: getCellCenter(col, row) is x = box.x + (box.width/cols)*(col+0.5), *)
(* y = box.y + (box.height/rows)*(row+0.5): {85, 135} for cell (1, 2) of   *)
(* the 4 x 3 grid over {10, 10, 200, 150}; the point lies strictly inside  *)
(* the cell's tiled rectangle; clickCell, doubleClickCell, rightClickCell  *)
(* and hoverCell all target exactly this point.                            *)
\* the rational q is o + (w / n) * (i + 0.5), strictly between the cell's edges
C10_IsCenter(q, o, w, n, i) ==
    /\ q[1] * 2 * n = q[2] * (2 * n * o + w * (2 * i + 1))
    /\ q[2] * (n * o + w * i) < q[1] * n
    /\ q[1] * n < q[2] * (n * o + w * (i + 1))

C10_Targets ==
    LET c == mCenter[1] IN
    CASE mCall.name \in {"clickCell", "rightClickCell"} ->
            mEvents = <<[type |-> "click", x |-> c.x, y |-> c.y,
                         button |-> IF mCall.name = "clickCell" THEN "left" ELSE "right"]>>
      [] mCall.name = "doubleClickCell" ->
            mEvents = <<[type |-> "dblclick", x |-> c.x, y |-> c.y, button |-> "left"]>>
      [] mCall.name = "hoverCell" ->
            /\ mEvents # <<>>
            /\ mEvents[Len(mEvents)] = [type |-> "move", x |-> c.x, y |-> c.y, button |-> "none"]
      [] OTHER -> TRUE

C10_CellCenter ==
    (mOutcome = "ok" /\ mCall.name # "dragFromCellToCell") =>
        /\ Len(mCenter) = 1
        /\ C10_IsCenter(mCenter[1].x, box.x, box.width, grid.cols, mCall.col)
        /\ C10_IsCenter(mCenter[1].y, box.y, box.height, grid.rows, mCall.row)
        /\ (grid = [cols |-> 4, rows |-> 3] /\ mCall.col = 1 /\ mCall.row = 2
              /\ box = [x |-> 10, y |-> 10, width |-> 200, height |-> 150])
              => mCenter[1] = [x |-> <<85, 1>>, y |-> <<135, 1>>]
        /\ C10_Targets

C10_Witness ==
    /\ mCall.name = "clickCell"
    /\ grid = [cols |-> 4, rows |-> 3]
    /\ mCall.col = 1 /\ mCall.row = 2
    /\ mEvents = <<[type |-> "click", x |-> <<85, 1>>, y |-> <<135, 1>>, button |-> "left"]>>

(***************************************************************************)
(* The specifications.                                                     *)
(***************************************************************************)
(***************************************************************************)
(* Claims about MouseInteractions.dragFromCellToCell and hoverCell         *)
(* (checked under SpecMouse).                                              *)
(***************************************************************************)
(* C22: dragFromCellToCell issues, in this order: one move to the source   *)
(* cell center, one press, five interpolated moves (the i-th at            *)
(* source + (dest - source) * i / 5), one move to the exact destination    *)
(* center, and one release: 7 moves, exactly one press and exactly one     *)
(* release, the press after the first move and before every other move,    *)
(* the release after the last move. Stated of the calls that return; a     *)
(* call that a pointer primitive ends has issued the events before it.     *)
C22_Source == getCellCenter(mLookups[1], mCall.col, mCall.row).center

C22_Dest == getCellCenter(mLookups[2], mCall.toCol, mCall.toRow).center

\* the coordinate q is from + (to - from) * i / 5
C22_IsStep(q, from, to, i) == RMul(RInt(5), RSub(q, from)) = RMul(RInt(i), RSub(to, from))

\* event e is what the drag issues as its k-th pointer primitive
C22_At(k, e) ==
    CASE k = 1 -> e = [type |-> "move", x |-> C22_Source.x, y |-> C22_Source.y,
                       button |-> "none"]
      [] k = 2 -> e.type = "down"
      [] k \in 3..7 -> /\ e.type = "move"
                       /\ C22_IsStep(e.x, C22_Source.x, C22_Dest.x, k - 2)
                       /\ C22_IsStep(e.y, C22_Source.y, C22_Dest.y, k - 2)
      [] k = 8 -> e = [type |-> "move", x |-> C22_Dest.x, y |-> C22_Dest.y,
                       button |-> "none"]
      [] k = 9 -> e.type = "up"
      [] OTHER -> FALSE

C22_Count(type) == Len(SelectSeq(mEvents, LAMBDA e : e.type = type))

C22_DragSequence ==
    (mCall.name = "dragFromCellToCell" /\ mOutcome # "none" /\ mEvents # <<>>) =>
        /\ \A k \in 1..Len(mEvents) : C22_At(k, mEvents[k])
        /\ mOutcome = "ok" =>
               /\ Len(mEvents) = 9
               /\ C22_Count("move") = 7
               /\ C22_Count("down") = 1
               /\ C22_Count("up") = 1

\* the tests' drag from cell (0, 0) to cell (2, 1) of the 4 x 3 grid
C22_Witness ==
    /\ mCall.name = "dragFromCellToCell"
    /\ mOutcome = "ok"
    /\ grid = [cols |-> 4, rows |-> 3]
    /\ mCall.col = 0 /\ mCall.row = 0 /\ mCall.toCol = 2 /\ mCall.toRow = 1
    /\ Len(mEvents) = 9
    /\ mEvents[1].x = <<35, 1>> /\ mEvents[1].y = <<35, 1>>
    /\ mEvents[3].x = <<55, 1>> /\ mEvents[3].y = <<45, 1>>
    /\ mEvents[8].x = <<135, 1>> /\ mEvents[8].y = <<85, 1>>

(* C23: hoverCell(col, row, {moveSteps, jitterAmount}) issues exactly      *)
(* (moveSteps if moveSteps > 1, else 0) + 1 + (2 if jitterAmount > 0,      *)
(* else 0) pointer moves: the interpolated steps from the stored last      *)
(* position towards the target, the exact cell center, then                *)
(* center + (jitterAmount, 0) and back to the center; in every case the    *)
(* final pointer move is to the exact cell center. Stated of the step      *)
(* that makes a call which returns; the position read is the origin when   *)
(* none is stored or the read fails.                                       *)
C23_MoveTo(x, y) == [type |-> "move", x |-> x, y |-> y, button |-> "none"]

\* the coordinate q is from + (to - from) * i / n
C23_IsStep(q, from, to, i, n) == RMul(RInt(n), RSub(q, from)) = RMul(RInt(i), RSub(to, from))

C23_Hovered(events, from, target, moveSteps, jitterAmount) ==
    LET n == IF moveSteps > 1 THEN moveSteps ELSE 0 IN
    /\ Len(events) = n + 1 + (IF jitterAmount > 0 THEN 2 ELSE 0)
    /\ \A i \in 1..n :
           /\ events[i].type = "move"
           /\ C23_IsStep(events[i].x, from.x, target.x, i, moveSteps)
           /\ C23_IsStep(events[i].y, from.y, target.y, i, moveSteps)
    /\ events[n + 1] = C23_MoveTo(target.x, target.y)
    /\ jitterAmount > 0 =>
           /\ events[n + 2] = C23_MoveTo(RAdd(target.x, RInt(jitterAmount)), target.y)
           /\ events[n + 3] = C23_MoveTo(target.x, target.y)
    /\ events[Len(events)] = C23_MoveTo(target.x, target.y)

C23_HoverStep ==
    (mOutcome = "none" /\ mCall'.name = "hoverCell" /\ mOutcome' = "ok") =>
        C23_Hovered(mEvents',
                    IF mFaults'.readFails \/ mStored = <<>> THEN Origin ELSE mStored[1],
                    mCenter'[1],
                    IF mCall'.options.moveSteps = <<>> THEN 3
                    ELSE mCall'.options.moveSteps[1],
                    IF mCall'.options.jitterAmount = <<>> THEN 2
                    ELSE mCall'.options.jitterAmount[1])

C23_HoverMoves == [][C23_HoverStep]_vars

\* the tests' hover of cell (1, 2) with { moveSteps: 2, jitterAmount: 1 },
\* started from a stored position other than the origin
C23_Witness ==
    /\ mCall.name = "hoverCell"
    /\ mOutcome = "ok"
    /\ grid = [cols |-> 4, rows |-> 3]
    /\ mCall.col = 1 /\ mCall.row = 2
    /\ mCall.options.moveSteps = <<2>> /\ mCall.options.jitterAmount = <<1>>
    /\ Len(mEvents) = 5
    /\ mEvents[1].x # <<85, 2>>
    /\ mEvents[2].x = <<85, 1>> /\ mEvents[2].y = <<135, 1>>
    /\ mEvents[4].x = <<86, 1>> /\ mEvents[4].y = <<135, 1>>
    /\ mEvents[5] = mEvents[3]

(* C24: in hoverCell, a failure to read the stored last pointer position   *)
(* makes the hover interpolate from the origin (0, 0), and a failure to    *)
(* store the new position is ignored; in neither case does hoverCell       *)
(* throw, and all pointer moves to the target are still issued.            *)
C24_TrackingFails(faults) == faults.failAt = 0 /\ (faults.readFails \/ faults.writeFails)

C24_TrackingStep ==
    (/\ mOutcome = "none"
     /\ mCall'.name = "hoverCell"
     /\ mLookups' # <<<<>>>>
     /\ C24_TrackingFails(mFaults')) =>
        /\ mOutcome' = "ok"
        /\ C23_Hovered(mEvents',
                       IF mFaults'.readFails \/ mStored = <<>> THEN [x |-> <<0, 1>>, y |-> <<0, 1>>]
                       ELSE mStored[1],
                       mCenter'[1],
                       IF mCall'.options.moveSteps = <<>> THEN 3
                       ELSE mCall'.options.moveSteps[1],
                       IF mCall'.options.jitterAmount = <<>> THEN 2
                       ELSE mCall'.options.jitterAmount[1])
        /\ mStored' = IF mFaults'.writeFails THEN mStored ELSE <<mCenter'[1]>>

C24_TrackingFailuresAreSilent == [][C24_TrackingStep]_vars

\* both the read and the write fail while another position is stored: the
\* three default steps start at a third of the way from the origin
C24_Witness ==
    /\ mCall.name = "hoverCell"
    /\ mOutcome = "ok"
    /\ mFaults.readFails /\ mFaults.writeFails
    /\ mStored # <<>>
    /\ mStored[1] # mCenter[1]
    /\ mCall.options.moveSteps = <<>>
    /\ Len(mEvents) = 6
    /\ RMul(RInt(3), mEvents[1].x) = mCenter[1].x
    /\ RMul(RInt(3), mEvents[1].y) = mCenter[1].y
    /\ mEvents[6].x = mCenter[1].x

\* C38: when a dragFromCellToCell call has ended, normally or by an
\* exception, every press it issued is followed by a release.
C38_DragReleasesTheButton ==
    mCall.name = "dragFromCellToCell" /\ mOutcome # "none" =>
        \A i \in 1..Len(mEvents) :
            mEvents[i].type = "down" =>
                \E j \in (i + 1)..Len(mEvents) : mEvents[j].type = "up"

(***************************************************************************)
(* Claims about ColorSampler.sampleCell (checked under SpecSampler).       *)
(***************************************************************************)
\* the capture fallback has computed its clip
C34_Clipped == sPc \in {"screenshot", "decode"} \/ (sPc = "done" /\ sClip # NoClip)

C34_CellW == RDivInt(RInt(box.width), grid.cols)

C34_CellH == RDivInt(RInt(box.height), grid.rows)

C34_Origin ==
    /\ sClip.x = RAdd(RInt(box.x), RMul(C34_CellW, RInt(sCall.col)))
    /\ sClip.y = RAdd(RInt(box.y), RMul(C34_CellH, RInt(sCall.row)))

\* the side is the cell's, or a larger one when the cell's is below 2
C34_SideOfCell(side, cell) ==
    IF RLt(cell, RInt(2)) THEN RLe(cell, RInt(side)) ELSE RInt(side) = cell

C34_InsideBox ==
    /\ RLe(RInt(box.x), sClip.x)
    /\ RLe(RInt(box.y), sClip.y)
    /\ RLe(RAdd(sClip.x, RInt(sClip.width)), RInt(box.x + box.width))
    /\ RLe(RAdd(sClip.y, RInt(sClip.height)), RInt(box.y + box.height))

\* C34 as stated: the clip is exactly the cell's tiled rectangle, enlarged
\* only when a side is below 2 px, and never extends beyond the bounding box.
C34_ClipIsTheTiledCell ==
    C34_Clipped =>
        /\ C34_Origin
        /\ C34_SideOfCell(sClip.width, C34_CellW)
        /\ C34_SideOfCell(sClip.height, C34_CellH)
        /\ C34_InsideBox

\* max(2, floor(cell)): 2 for a cell below 2, else the integer part
C34_FlooredSide(side, cell) ==
    IF RLt(cell, RInt(2)) THEN side = 2
    ELSE RLe(RInt(side), cell) /\ RLt(cell, RInt(side + 1))

\* C34, amended: the clip starts at the cell's tiled origin, each side is
\* the cell's side rounded down to an integer and at least 2, and the clip
\* lies inside the bounding box whenever both sides of the cell are at
\* least 2 px.
C34_ClipIsTheFlooredCell ==
    C34_Clipped =>
        /\ C34_Origin
        /\ C34_FlooredSide(sClip.width, C34_CellW)
        /\ C34_FlooredSide(sClip.height, C34_CellH)
        /\ (~RLt(C34_CellW, RInt(2)) /\ ~RLt(C34_CellH, RInt(2)) => C34_InsideBox)

\* the clip of cell (1, 2) of the 4 x 3 grid over the box (10, 10, 200, 150)
C34_Witness ==
    /\ grid = TestGrid /\ box = TestBox
    /\ sPc = "decode"
    /\ sCall = SCall(1, 2)
    /\ sClip = [x |-> RInt(60), y |-> RInt(110), width |-> 50, height |-> 50]

\* the direct read has produced a colour
C35_Read == sDirect = "color" /\ sRgba # NoColor

\* the rounded device-pixel image of the cell center along one axis
C35_Center(bitmap, n, i) == RoundDiv(bitmap * (2 * i + 1), 2 * n)

\* C35: the nine device pixels of the direct read lie inside the canvas
\* bitmap [0, width) x [0, height), and each returned channel is an integer
\* in [0, 255].
C35_NineReadsInsideTheBitmap ==
    C35_Read =>
        LET cx == C35_Center(sCanvas.width, grid.cols, sCall.col)
            cy == C35_Center(sCanvas.height, grid.rows, sCall.row)
        IN  /\ \A dx \in {-1, 0, 1}, dy \in {-1, 0, 1} :
                   InBitmap(sCanvas.width, sCanvas.height, cx + dx, cy + dy)
            /\ \A ch \in 1..4 : sRgba[1][ch] \in 0..255

(***************************************************************************)
(* Claims about the grid of CanvasGrid and of its components.              *)
(***************************************************************************)
\* C33: once attach() has completed, the grid the grid property reports is
\* the grid the components were constructed with.
C33_GridIsFixed ==
    cConfig.injected /\ cConfig.parts # <<>> => cConfig.grid = cConfig.parts[1].grid

(***************************************************************************)
(* Claims about the pointer position hoverCell interpolates from.          *)
(***************************************************************************)
C32_Moves == SelectSeq(mEvents, LAMBDA e : e.type = "move")

\* window._canvasGridMousePos || { x: 0, y: 0 }
C32_Stored == IF mStored = <<>> THEN Origin ELSE mStored[1]

\* C32: when a call has settled, the stored position hoverCell reads is the
\* position of the last mouse.move the call issued.
C32_StoredIsLastMove ==
    mOutcome # "none" /\ C32_Moves # <<>> =>
        LET last == C32_Moves[Len(C32_Moves)] IN
        C32_Stored = Pt(last.x, last.y)

(***************************************************************************)
(* Claims about GridScanner.extractCellText, extractRowText and            *)
(* extractColumnText.                                                      *)
(***************************************************************************)
C31_Returned(via) ==
    gOp = "select" /\ gPc = "done" /\ gOutcome = "returned" /\ gCall.via = via

C31_Hovers == SelectSeq(gLog, LAMBDA e : e.op = "hover")

\* the text the tooltip showed at the cell, <<>> when the cell has none
C31_TextAt(col, row) ==
    LET queries == SelectSeq(gLog, LAMBDA e : e.op = "query" /\ e.col = col
                                              /\ e.row = row /\ e.outcome = "ok")
    IN  IF queries = <<>> \/ ~queries[1].seen[1].visible THEN <<>>
        ELSE queries[1].seen[1].text

C31_TextOf(entry) == IF entry.text = <<>> THEN <<>> ELSE <<entry.text[1].text>>

C31_RowText ==
    C31_Returned("row") /\ gCall.startRow \in 0..(grid.rows - 1) =>
        LET r == gCall.startRow
            out == gReport[2]
        IN  /\ gReport[1].region = [startCol |-> 0, endCol |-> grid.cols - 1,
                                    startRow |-> r, endRow |-> r]
            /\ out.row = r
            /\ Len(out.cellTexts) = grid.cols
            /\ Len(C31_Hovers) = grid.cols
            /\ \A i \in 1..grid.cols :
                   /\ out.cellTexts[i].col = i - 1
                   /\ C31_Hovers[i].col = i - 1 /\ C31_Hovers[i].row = r
                   /\ C31_TextOf(out.cellTexts[i]) = C31_TextAt(i - 1, r)

C31_ColumnText ==
    C31_Returned("column") /\ gCall.startCol \in 0..(grid.cols - 1) =>
        LET c == gCall.startCol
            out == gReport[2]
        IN  /\ gReport[1].region = [startCol |-> c, endCol |-> c,
                                    startRow |-> 0, endRow |-> grid.rows - 1]
            /\ out.col = c
            /\ Len(out.cellTexts) = grid.rows
            /\ Len(C31_Hovers) = grid.rows
            /\ \A i \in 1..grid.rows :
                   /\ out.cellTexts[i].row = i - 1
                   /\ C31_Hovers[i].row = i - 1 /\ C31_Hovers[i].col = c
                   /\ C31_TextOf(out.cellTexts[i]) = C31_TextAt(c, i - 1)

C31_CellText ==
    C31_Returned("cell") /\ gCall.startCol \in 0..(grid.cols - 1)
                         /\ gCall.startRow \in 0..(grid.rows - 1) =>
        /\ Len(C31_Hovers) = 1
        /\ C31_Hovers[1].col = gCall.startCol /\ C31_Hovers[1].row = gCall.startRow
        /\ gReport[2].text = C31_TextAt(gCall.startCol, gCall.startRow)

\* C31: extractRowText(r), for a row r of the grid, selects columns
\* 0..cols-1 of row r and returns exactly cols entries in ascending column
\* order, each with its cell's text; extractColumnText(c), for a column c of
\* the grid, returns exactly rows entries in ascending row order; and
\* extractCellText(c, r) returns the text of cell (c, r), or null when the
\* cell has none.
C31_ExtractMethodsSelectTheirCells ==
    C31_RowText /\ C31_ColumnText /\ C31_CellText

\* extractRowText(0) has returned on the 3 x 2 grid: three entries, the
\* tooltip's text at one of them
C31_Witness ==
    /\ grid = ScanTestGrid
    /\ C31_Returned("row")
    /\ gCall.startRow = 0
    /\ Len(gReport[2].cellTexts) = 3
    /\ \E i \in 1..3 : C31_TextOf(gReport[2].cellTexts[i]) = <<"tip">>

(***************************************************************************)
(* Claims about GridScanner.hasAnyTooltips and selectCellsAndExtractText   *)
(* (checked under Spec).                                                   *)
(***************************************************************************)
(* C12: hasAnyTooltips never samples or hovers more than maxCellsToCheck   *)
(* cells, for every grid and every non-negative integer cap (by default    *)
(* min(20, cols * rows)); when no tooltip is visible at any cell it        *)
(* returns found = false.                                                  *)
C12_Ops(op) == SelectSeq(gLog, LAMBDA e : e.op = op)

C12_NoTooltipSeen == \A i \in 1..Len(gLog) : gLog[i].seen = <<>>

C12_NeverMoreThanCap ==
    gOp = "hasAny" =>
        /\ Len(C12_Ops("sample")) <= MaxCellsToCheck(grid, gCall.maxCellsToCheck)
        /\ Len(C12_Ops("hover")) <= MaxCellsToCheck(grid, gCall.maxCellsToCheck)
        /\ (gOutcome = "returned" /\ C12_NoTooltipSeen) => gReport[1] = NotFound

(* C13: hasAnyTooltips stops at the first sampled cell at which the        *)
(* tooltip query returns at least one visible tooltip: it returns          *)
(* found = true with firstTooltipAt that cell and tooltipText the first    *)
(* tooltip's text, and no later cell is sampled or hovered.                *)
C13_Hit(e) == e.op = "query" /\ e.outcome = "ok" /\ e.seen # <<>>

C13_StopsAtFirstTooltip ==
    gOp = "hasAny" =>
        /\ \A i \in 1..Len(gLog) :
               C13_Hit(gLog[i]) =>
                   /\ i = Len(gLog)
                   /\ gOutcome = "returned"
                   /\ gReport[1] = [found |-> TRUE,
                                    firstTooltipAt |-> <<Cell(gLog[i].col, gLog[i].row)>>,
                                    tooltipText |-> gLog[i].seen[1].text]
                   /\ gCells[gIdx] = Cell(gLog[i].col, gLog[i].row)
                   /\ CellsOf(C12_Ops("sample")) = SubSeq(gCells, 1, gIdx)
                   /\ \A j \in 1..Len(C12_Ops("hover")) :
                          \E k \in 1..gIdx :
                              gCells[k] = Cell(C12_Ops("hover")[j].col, C12_Ops("hover")[j].row)
        /\ (gOutcome = "returned" /\ gReport[1].found) =>
               gLog # <<>> /\ C13_Hit(gLog[Len(gLog)])

C13_Witness ==
    /\ gOp = "hasAny"
    /\ gOutcome = "returned"
    /\ gReport[1].found
    /\ gReport[1].tooltipText = <<"tap">>
    /\ gIdx < Len(gCells)
    /\ Len(gLog[Len(gLog)].seen) = 2

(* C14: the cells hasAnyTooltips samples are spread over the whole grid:    *)
(* with stepCol = max(1, floor(cols / sqrt(cap))) and stepRow likewise,    *)
(* every stride row (0, stepRow, 2 stepRow, ... below rows) and every      *)
(* stride column contains at least one sampled cell, for every grid and    *)
(* every cap of at least 1. Stated of a call that has gone through all its *)
(* cells.                                                                  *)
C14_StrideLines(n, step) == {k \in 0..(n - 1) : k % step = 0}

C14_Sampled == CellsOf(C12_Ops("sample"))

C14_SampledCellsCoverTheStrides ==
    LET cap == MaxCellsToCheck(grid, gCall.maxCellsToCheck) IN
    (gOp = "hasAny" /\ cap >= 1 /\ gOutcome = "returned" /\ ~gReport[1].found) =>
        /\ \A row \in C14_StrideLines(grid.rows, Stride(grid.rows, cap)) :
               \E i \in 1..Len(C14_Sampled) : C14_Sampled[i].row = row
        /\ \A col \in C14_StrideLines(grid.cols, Stride(grid.cols, cap)) :
               \E i \in 1..Len(C14_Sampled) : C14_Sampled[i].col = col

(* C15: for all integer startCol, endCol, startRow and endRow (reversed,   *)
(* negative or beyond the grid) the region selectCellsAndExtractText        *)
(* returns satisfies 0 <= startCol <= endCol <= cols - 1 and                *)
(* 0 <= startRow <= endRow <= rows - 1.                                     *)
C15_RegionIsInsideTheGrid ==
    (gOp = "select" /\ gOutcome = "returned") =>
        LET region == gReport[1].region IN
        /\ 0 <= region.startCol
        /\ region.startCol <= region.endCol
        /\ region.endCol <= grid.cols - 1
        /\ 0 <= region.startRow
        /\ region.startRow <= region.endRow
        /\ region.endRow <= grid.rows - 1

(* C16: selectCellsAndExtractText called with start and end swapped, in    *)
(* the columns, the rows or both, returns the same region, visits the same *)
(* cells in the same order and reports the same totalCells as the ordered  *)
(* call. Stated of every call: its region, its visited cells and its       *)
(* totalCells are those the ordered call's arguments give.                 *)
C16_Ordered(call) ==
    [call EXCEPT !.startCol = Min(call.startCol, call.endCol),
                 !.endCol = Max(call.startCol, call.endCol),
                 !.startRow = Min(call.startRow, call.endRow),
                 !.endRow = Max(call.startRow, call.endRow)]

\* the cells of a region, row outer, column inner
C16_CellsOf(region) ==
    LET w == region.endCol - region.startCol + 1
        h == region.endRow - region.startRow + 1
    IN  IF w <= 0 \/ h <= 0 THEN <<>>
        ELSE [i \in 1..(w * h) |->
                 Cell(region.startCol + ((i - 1) % w), region.startRow + ((i - 1) \div w))]

C16_SwappedCallIsTheOrderedCall ==
    gOp = "select" =>
        LET ordered == Region(grid, C16_Ordered(gCall)) IN
        /\ \E n \in 0..Len(C16_CellsOf(ordered)) :
               CellsOf(gResults) = SubSeq(C16_CellsOf(ordered), 1, n)
        /\ CellsOf(SelectSeq(gLog, LAMBDA e : e.op = "hover")) = CellsOf(gResults)
        /\ gOutcome = "returned" =>
               /\ gReport[1].region = ordered
               /\ gReport[1].totalCells = TotalCells(ordered)
               /\ CellsOf(gReport[1].textContent) = C16_CellsOf(ordered)

C16_Witness ==
    /\ gOp = "select"
    /\ gOutcome = "returned"
    /\ gCall.startCol > gCall.endCol
    /\ gCall.startRow < gCall.endRow
    /\ gReport[1].region = [startCol |-> 0, endCol |-> grid.cols - 1,
                            startRow |-> 0, endRow |-> grid.rows - 1]
    /\ CellsOf(gReport[1].textContent) = RowMajor(grid)
    /\ gReport[1].totalCells = grid.cols * grid.rows

(* C29: for scanAllCellsForTooltips with skipEmptyCells = false, the       *)
(* report satisfies: totalCells = results.length = cols * rows;            *)
(* cellsWithTooltips = number of results with hasTooltip = length of       *)
(* summary.tooltipCells; summary.hasAnyTooltips is true iff                *)
(* cellsWithTooltips > 0; and a result has hasTooltip = true iff the       *)
(* tooltip query made after hovering that cell returned at least one       *)
(* visible tooltip, its tooltipText being the first one's text.            *)
\* the tooltip queries that returned for the cell of result r
C29_Queries(r) ==
    SelectSeq(gLog, LAMBDA e : e.op = "query" /\ e.col = r.col /\ e.row = r.row
                               /\ e.outcome = "ok")

C29_WithTooltip(results) == {i \in 1..Len(results) : results[i].hasTooltip}

C29_ReportIsConsistent ==
    (gOp = "scanAll" /\ gOutcome = "returned" /\ gCall.skipEmptyCells = <<FALSE>>) =>
        LET report == gReport[1] IN
        /\ report.totalCells = Len(report.results)
        /\ report.totalCells = grid.cols * grid.rows
        /\ report.cellsWithTooltips = Cardinality(C29_WithTooltip(report.results))
        /\ report.cellsWithTooltips = Len(report.summary.tooltipCells)
        /\ report.summary.hasAnyTooltips = (report.cellsWithTooltips > 0)
        /\ \A i \in 1..Len(report.results) :
               LET r == report.results[i]
                   queries == C29_Queries(r)
               IN  /\ r.hasTooltip = (queries # <<>> /\ queries[1].seen # <<>>)
                   /\ r.hasTooltip => r.tooltipText = queries[1].seen[1].text
                   /\ Len(queries) <= 1

\* the tests' 3 x 2 grid: six results, a tooltip at one cell only
C29_Witness ==
    /\ gOp = "scanAll"
    /\ gOutcome = "returned"
    /\ gCall.skipEmptyCells = <<FALSE>>
    /\ grid = [cols |-> 3, rows |-> 2]
    /\ gReport[1].totalCells = 6
    /\ gReport[1].cellsWithTooltips = 1
    /\ gReport[1].summary.hasAnyTooltips
    /\ gReport[1].summary.tooltipCells = <<[col |-> 1, row |-> 1]>>
    /\ gReport[1].results[5].hasTooltip
    /\ gReport[1].results[5].tooltipText = <<"tip">>
    /\ ~gReport[1].results[4].hasTooltip

\* C36: in a report of scanAllCellsForTooltips, summary.domTooltips is the
\* number of cells at which a DOM tooltip was detected, cellsWithTooltips,
\* and summary.canvasTooltips is 0.
C36_DomTooltipsCountsTooltipCells ==
    gOp = "scanAll" /\ gOutcome = "returned" =>
        /\ gReport[1].summary.domTooltips = gReport[1].cellsWithTooltips
        /\ gReport[1].summary.canvasTooltips = 0

\* the call went through its cells: it returned a report, or (hasAnyTooltips)
\* found no tooltip
C37_WentThrough ==
    /\ gPc = "done"
    /\ gOutcome = "returned"
    /\ gOp = "hasAny" => ~gReport[1].found

C37_Away == SelectSeq(gLog, LAMBDA e : e.op = "away")

\* the move away threw
C37_AwayFailed == C37_Away # <<>> /\ C37_Away[1].outcome # "ok"

\* the report is what the cells made it
C37_ReportOfTheCells ==
    CASE gOp = "scanAll" -> gReport[1] = ScanReport(gProcessed, gResults)
      [] gOp = "select" ->
             /\ gReport[1].textContent = gResults
             /\ gReport[1].cellsWithText = gWithText
             /\ gReport[1].combinedText = CombinedText(gResults)
      [] OTHER -> gReport[1] = NotFound

\* C37: when scanAllCellsForTooltips or selectCellsAndExtractText returns,
\* or hasAnyTooltips returns found = false, the last thing the call did to
\* the pointer is one move to (0, 0), after every cell's hover; and when that
\* move fails the call still returns, with the report of its cells.
C37_MovesAwayBeforeReturning ==
    /\ C37_WentThrough =>
           /\ Len(C37_Away) = 1
           /\ gLog[Len(gLog)].op = "away"
           /\ gLog[Len(gLog)].col = 0 /\ gLog[Len(gLog)].row = 0
           /\ C37_ReportOfTheCells
    /\ gPc = "done" /\ C37_AwayFailed => gOutcome = "returned" /\ gError = "none"

\* a scan of the 3 x 2 grid whose move away threw returned its six results
C37_Witness ==
    /\ grid = ScanTestGrid
    /\ gOp = "scanAll"
    /\ gPc = "done"
    /\ C37_AwayFailed
    /\ gOutcome = "returned"
    /\ Len(gReport[1].results) = 6

\* C39: in every report of selectCellsAndExtractText, totalCells is
\* non-negative and is the number of entries of textContent, the cells
\* visited, and cellsWithText is at most totalCells.
C39_TotalCellsCountsTheEntries ==
    gOp = "select" /\ gOutcome = "returned" =>
        /\ gReport[1].totalCells >= 0
        /\ gReport[1].totalCells = Len(gReport[1].textContent)
        /\ gReport[1].cellsWithText <= gReport[1].totalCells

\* the cells of the log entries of one operation
C40_Cells(op) ==
    {Cell(gLog[i].col, gLog[i].row) : i \in {j \in 1..Len(gLog) : gLog[j].op = op}}

\* C40: the result of hasAnyTooltips is decided by the tooltip queries
\* alone: when it returns found = false, every cell it sampled was hovered,
\* whatever colorSampler.sampleCell did at that cell.
C40_SamplerDoesNotDecide ==
    gOp = "hasAny" /\ gOutcome = "returned" /\ ~gReport[1].found =>
        C40_Cells("sample") \subseteq C40_Cells("hover")

(* C30: selectCellsAndExtractText's combinedText is the ' | '-joined       *)
(* sequence, in row-major cell order, of the trimmed text of every visited *)
(* cell whose captured text is non-blank; it is undefined when no cell has *)
(* such text, i.e. exactly when cellsWithText is 0.                        *)
\* the text hoverCellAndCaptureTooltip captured at the cell of entry r
C30_Captured(r) ==
    LET queries == SelectSeq(gLog, LAMBDA e : e.op = "query" /\ e.col = r.col
                                              /\ e.row = r.row /\ e.outcome = "ok")
    IN  IF queries = <<>> \/ ~queries[1].seen[1].visible THEN <<>>
        ELSE queries[1].seen[1].text

C30_NonBlank(r) == C30_Captured(r) # <<>> /\ C30_Captured(r)[1] \notin {"", " "}

\* the trimmed texts of the entries with non-blank captured text, in the
\* order of textContent
C30_Texts(content) ==
    LET cells == SelectSeq(content, C30_NonBlank)
    IN  [i \in 1..Len(cells) |-> [coords |-> cells[i].text[1].coords,
                                  text |-> C30_Captured(cells[i])[1]]]

C30_CombinedTextJoinsNonBlankTexts ==
    (gOp = "select" /\ gOutcome = "returned") =>
        LET report == gReport[1] IN
        /\ C2_Increasing(CellsOf(report.textContent))
        /\ report.combinedText =
               IF C30_Texts(report.textContent) = <<>> THEN <<>>
               ELSE <<C30_Texts(report.textContent)>>
        /\ (report.combinedText = <<>>) = (report.cellsWithText = 0)

(***************************************************************************)
(* Claims about the TooltipDetector (checked under SpecDetector).          *)
(***************************************************************************)
(* C17: hoverCellAndCaptureTooltip, after hovering and waiting, returns    *)
(* visible = true exactly when at least one selector of the list has a     *)
(* currently visible matching element, and then selector, text and html    *)
(* are those of the earliest such selector in list order; otherwise it     *)
(* returns visible = false with no selector. Stated of the pages none of   *)
(* whose queries throws.                                                   *)
C17_NoQueryThrows(page) ==
    \A s \in DOMAIN page : \A i \in 1..Len(page[s]) : page[s][i].throws = "none"

C17_Visible(page, s) == {i \in 1..Len(page[s]) : page[s][i].visible}

C17_Showing(page) == {s \in DOMAIN page : C17_Visible(page, s) # {}}

C17_Earliest(page) == CHOOSE s \in C17_Showing(page) : \A t \in C17_Showing(page) : s <= t

C17_ReportsTheEarliestVisibleSelector ==
    (dOp = "capture" /\ dOutcome = "returned" /\ C17_NoQueryThrows(dPage)) =>
        IF C17_Showing(dPage) = {}
        THEN ~dResult[1].visible /\ dResult[1].selector = <<>>
        ELSE LET s == C17_Earliest(dPage)
                 e == dPage[s][CHOOSE i \in C17_Visible(dPage, s) :
                                   \A j \in C17_Visible(dPage, s) : i <= j]
             IN  /\ dResult[1].visible
                 /\ dResult[1].selector = <<DefaultSelectors[s]>>
                 /\ dResult[1].text = OrUndefined(e.text)
                 /\ dResult[1].html = OrUndefined(e.html)

(* C18: in hoverCellAndCaptureTooltip and getVisibleTooltips a selector    *)
(* for which any query step (count, visibility, text, markup, bounding     *)
(* box) raises is treated as no match: the pass goes on with the next      *)
(* selector, and the result holds no visible flag, selector name or entry  *)
(* that comes from the failing selector.                                   *)
\* a query on the selector's matches raises during the capture pass
C18_CaptureRaises(elements) ==
    \/ CountThrows(elements)
    \/ /\ elements # <<>>
       /\ \/ elements[1].throws = "isVisible"
          \/ elements[1].visible /\ elements[1].throws \in {"textContent", "innerHTML"}

\* a query on the selector's matches raises during getVisibleTooltips
C18_BatchRaises(elements) ==
    \/ CountThrows(elements)
    \/ \E i \in 1..Len(elements) :
           \/ elements[i].throws = "isVisible"
           \/ elements[i].visible /\ elements[i].throws # "none"

C18_Named(name) == CHOOSE s \in 1..Len(DefaultSelectors) : DefaultSelectors[s] = name

C18_FailingSelectorIsNoMatch ==
    /\ (dOp = "capture" /\ dOutcome = "returned") =>
           /\ dResult[1].visible => dResult[1].selector # <<>>
           /\ dResult[1].selector # <<>> =>
                  ~C18_CaptureRaises(dPage[C18_Named(dResult[1].selector[1])])
           /\ (\E s \in DOMAIN dPage : ~C18_CaptureRaises(dPage[s]) /\ dPage[s] # <<>>
                                         /\ dPage[s][1].visible) => dResult[1].visible
    /\ (dOp = "getVisible" /\ dOutcome = "returned") =>
           /\ \A i \in 1..Len(dResult[1]) :
                  ~C18_BatchRaises(dPage[C18_Named(dResult[1][i].selector)])
           /\ \A s \in DOMAIN dPage :
                  ~C18_BatchRaises(dPage[s]) =>
                      Len(SelectSeq(dResult[1], LAMBDA e : e.selector = DefaultSelectors[s]))
                          = Cardinality(C17_Visible(dPage, s))

(* C19: if an element matching any one of the candidate selectors is       *)
(* visible at some moment within the overall timeout after waitForTooltip  *)
(* is called, waitForTooltip returns a result for a visible tooltip        *)
(* instead of throwing, whichever position that selector has in the list.  *)
(* Stated of the pages none of whose reads throws.                         *)
C19_VisibleWithinTimeoutIsFound ==
    (/\ dOp = "waitFor"
     /\ ShowsWithinTimeout(dTimeline)
     /\ dTimeline.detached = {}) =>
        /\ dOutcome = "returned"
        /\ dResult # <<>>

(* C20: waitForTooltip waits on the selectors one at a time in list order, *)
(* each with a budget of timeout / n (n the number of selectors, timeout   *)
(* 3000 ms by default), so the summed wait budget never exceeds timeout;   *)
(* when no selector yields a result it throws an error whose message names *)
(* the timeout and all attempted selectors.                                *)
C20_Selectors == Opt(dCall.tooltipSelectors, DefaultSelectors)

C20_Timeout == IF dCall.timeout = NoArg THEN 3000 ELSE dCall.timeout[1]

RECURSIVE C20_SumBudgets(_)
C20_SumBudgets(waits) ==
    IF waits = <<>> THEN RInt(0)
    ELSE RAdd(Head(waits).arg.timeout, C20_SumBudgets(Tail(waits)))

C20_WaitsInOrderWithinBudget ==
    dOp = "waitFor" =>
        /\ Len(dLog) <= Len(C20_Selectors)
        /\ \A i \in 1..Len(dLog) :
               /\ dLog[i].op = "waitFor"
               /\ dLog[i].arg.selector = C20_Selectors[i]
               /\ dLog[i].arg.state = "visible"
               /\ RMul(dLog[i].arg.timeout, RInt(Len(C20_Selectors))) = RInt(C20_Timeout)
        /\ RLe(C20_SumBudgets(dLog), RInt(C20_Timeout))
        /\ dOutcome \in {"returned", "threw"}
        /\ (dResult = <<>>) = (dOutcome = "threw")
        /\ dOutcome = "threw" =>
               /\ [i \in 1..Len(dLog) |-> dLog[i].arg.selector] = C20_Selectors
               /\ dError = <<[message |-> "No tooltip found within",
                              timeout |-> C20_Timeout,
                              selectors |-> C20_Selectors]>>

C20_Witness ==
    /\ dOp = "waitFor"
    /\ dCall.timeout = NoArg
    /\ dCall.tooltipSelectors = NoArg
    /\ dOutcome = "threw"
    /\ Len(dLog) = 8
    /\ \A i \in 1..8 : dLog[i].arg.timeout = RInt(375)
    /\ dError[1].timeout = 3000
    /\ dError[1].selectors = DefaultSelectors

(* C21: getVisibleTooltips returns exactly one entry for every pair        *)
(* (selector, i) such that the i-th element matching that selector is      *)
(* currently visible, and no entry for a hidden element; entries are       *)
(* ordered by selector list order and then by ascending i, and each        *)
(* carries its selector and its index i among all elements matching that   *)
(* selector.                                                               *)
\* the (selector, index) pairs of the elements that answer isVisible with true
C21_VisiblePairs(page) ==
    UNION {{<<DefaultSelectors[s], i - 1>> :
               i \in {j \in 1..Len(page[s]) :
                         page[s][j].visible
                             /\ page[s][j].throws \notin {"count", "isVisible"}}} :
           s \in DOMAIN page}

C21_EntryPairs(tooltips) == {<<tooltips[k].selector, tooltips[k].index>> : k \in 1..Len(tooltips)}

\* by selector list order, then by ascending index; no pair twice
C21_InOrder(tooltips) ==
    \A k \in 1..Len(tooltips) - 1 :
        LET a == tooltips[k]
            b == tooltips[k + 1]
        IN  \/ C18_Named(a.selector) < C18_Named(b.selector)
            \/ a.selector = b.selector /\ a.index < b.index

C25_Valid(v) == v # <<>> /\ v[1] > 0

C25_Step ==
    /\ cConfig'.grid.cols > 0 /\ cConfig'.grid.rows > 0
    /\ (cOutcome = "none" /\ cCall'.name = "gridSize") =>
           IF C25_Valid(cCall'.args[1]) /\ C25_Valid(cCall'.args[2])
           THEN cConfig'.grid = [cols |-> cCall'.args[1][1], rows |-> cCall'.args[2][1]]
           ELSE cConfig'.grid = cConfig.grid

C25_GridStaysPositive == [][C25_Step]_vars

(* C26: when no grid size was set before attach(), attach() chooses the    *)
(* grid from the larger of the canvas's width and height: below 400 px a   *)
(* 6x4 grid, 400-900 px a 10x8 grid, above 900 px a 14x10 grid; a grid set *)
(* explicitly with gridSize(cols, rows) is never replaced by attach().     *)
C26_Larger(rect) == IF rect.width >= rect.height THEN rect.width ELSE rect.height

C26_Bucket(maxDim) ==
    IF maxDim < 400 THEN [cols |-> 6, rows |-> 4]
    ELSE IF maxDim <= 900 THEN [cols |-> 10, rows |-> 8]
    ELSE [cols |-> 14, rows |-> 10]

C26_AttachStep ==
    (cOutcome = "none" /\ cCall'.name = "attach" /\ cOutcome' = "returned") =>
        /\ (cConfig.isDefault /\ cCall'.rect # <<>>) =>
               cConfig'.grid = C26_Bucket(C26_Larger(cCall'.rect[1]))
        /\ ~cConfig.isDefault => cConfig'.grid = cConfig.grid

C26_AutoGridBuckets == [][C26_AttachStep]_vars

(* C27: attach() throws 'call .locator(selector) first' when no locator    *)
(* was set, and throws a no-elements-match error when the selector has no  *)
(* element at the requested nth index; in both cases it throws before the  *)
(* overlay is injected, before any component is created or replaced, and   *)
(* before any pointer interaction.                                         *)
C27_Ops(log) == {log[i].op : i \in 1..Len(log)}

C27_CountedNone(log) == \E i \in 1..Len(log) : log[i].op = "count" /\ log[i].result = 0

C27_Fatal(error) ==
    /\ error # <<>>
    /\ error[1].message \in {"call .locator(selector) first", "no elements match"}

C27_AttachStep ==
    (cOutcome = "none" /\ cCall'.name = "attach") =>
        /\ cConfig.selector = <<>> =>
               /\ cOutcome' = "threw"
               /\ cError'[1].message = "call .locator(selector) first"
        /\ C27_CountedNone(cLog') =>
               /\ cOutcome' = "threw"
               /\ cError'[1] = [message |-> "no elements match",
                                selector |-> cConfig.selector, index |-> cConfig.nth]
        /\ C27_Fatal(cError') =>
               /\ cConfig'.parts = cConfig.parts
               /\ cConfig'.injected = cConfig.injected
               /\ C27_Ops(cLog') \subseteq {"count", "boundingBox"}
               /\ mEvents' = mEvents

C27_AttachThrowsBeforeActing == [][C27_AttachStep]_vars

\* a second attach(), after nth(1), finds no element: the components of the
\* first attach() are still the object's
C27_Witness ==
    /\ cCall.name = "attach"
    /\ cOutcome = "threw"
    /\ cError[1].message = "no elements match"
    /\ cConfig.nth = 1
    /\ cConfig.parts # <<>>
    /\ cConfig.parts[1].canvas.nth = 0
    /\ cConfig.injected

\* attach() on an object without a locator
C27_WitnessNoLocator ==
    /\ cCall.name = "attach"
    /\ cOutcome = "threw"
    /\ cError[1].message = "call .locator(selector) first"
    /\ cConfig.parts = <<>>

(***************************************************************************)
(* Claims about the scan's awaits (checked under SpecSteps).               *)
(***************************************************************************)
(* C28: within one scan, cell processing never overlaps: the hover of the  *)
(* next cell is not started until the hover, wait and tooltip query of the *)
(* current cell have completed and its result has been appended, so at     *)
(* most one pointer operation of the scan is in flight at any time.        *)
C28_Pointer == {o \in stInFlight : o.name \in {"hover", "away"}}

C28_OfTheCell == {"hover", "wait", "query"}

C28_CellsDoNotOverlap ==
    /\ Cardinality(C28_Pointer) <= 1
    /\ \A o \in stInFlight :
           /\ o.name = "hover" =>
                  \* every earlier cell is done: its operations have settled
                  \* and its result is in results
                  /\ Len(stResults) = o.cell
                  /\ \A i \in 1..o.cell : stResults[i].cell = i - 1
                  /\ \A p \in stInFlight : p = o
           /\ o.name \in C28_OfTheCell => o.cell = Len(stResults)

\* the hover of the second cell is in flight, the first cell's result appended
C28_Witness ==
    /\ Started("hover", 1) \in stInFlight
    /\ Len(stResults) = 1
    /\ stResults[1].cell = 0
    /\ stPc.op = <<Started("hover", 1)>>

(***************************************************************************)
(* Claims about GridOverlay.highlightCell (checked under SpecOverlay).     *)
(***************************************************************************)
(* C11: the cell rectangles highlightCell computes tile the bounding box   *)
(* exactly: the widths across a row sum to the box's width and the heights *)
(* down a column to its height, neighbouring cells share a boundary (no    *)
(* gap, no overlap), the first and last cells lie on the box's edges, and  *)
(* every rectangle lies within the box.                                    *)
RECURSIVE C11_SumWidths(_, _)
C11_SumWidths(row, col) ==
    IF col < 0 THEN RInt(0)
    ELSE RAdd(cellRect(box, grid, col, row).width, C11_SumWidths(row, col - 1))

RECURSIVE C11_SumHeights(_, _)
C11_SumHeights(col, row) ==
    IF row < 0 THEN RInt(0)
    ELSE RAdd(cellRect(box, grid, col, row).height, C11_SumHeights(col, row - 1))

C11_Right(r) == RAdd(r.x, r.width)

C11_Bottom(r) == RAdd(r.y, r.height)

C11_TilesAt(col, row) ==
    LET r == cellRect(box, grid, col, row) IN
    /\ C11_SumWidths(row, grid.cols - 1) = RInt(box.width)
    /\ C11_SumHeights(col, grid.rows - 1) = RInt(box.height)
    /\ RLt(RInt(0), r.width) /\ RLt(RInt(0), r.height)
    /\ IF col = 0 THEN r.x = RInt(box.x)
       ELSE r.x = C11_Right(cellRect(box, grid, col - 1, row))
    /\ IF row = 0 THEN r.y = RInt(box.y)
       ELSE r.y = C11_Bottom(cellRect(box, grid, col, row - 1))
    /\ col = grid.cols - 1 => C11_Right(r) = RInt(box.x + box.width)
    /\ row = grid.rows - 1 => C11_Bottom(r) = RInt(box.y + box.height)
    /\ RLe(RInt(box.x), r.x) /\ RLe(C11_Right(r), RInt(box.x + box.width))
    /\ RLe(RInt(box.y), r.y) /\ RLe(C11_Bottom(r), RInt(box.y + box.height))

C11_RectanglesTileTheBox ==
    /\ \A col \in Cols, row \in Rows : C11_TilesAt(col, row)
    /\ oOutcome = "ok" =>
           oArgs[1].rect = cellRect(box, grid, oCall[1].col, oCall[1].row)

C11_Witness ==
    /\ oOutcome = "ok"
    /\ grid = TestGrid
    /\ oCall[1].col = 1 /\ oCall[1].row = 2
    /\ oArgs[1].rect = [x |-> RInt(60), y |-> RInt(110), width |-> RInt(50), height |-> RInt(50)]

RestOff == OverlayOff /\ DetectorOff /\ FacadeOff /\ StepsOff

InitWithin ==
    /\ WithinInit
    /\ grid = DEFAULT_GRID
    /\ box = TestBox
    /\ MouseOff
    /\ SamplerOff
    /\ ScanOff
    /\ RestOff

NextWithin == ApplyWithin

SpecWithin == InitWithin /\ [][NextWithin]_vars

InitMouse ==
    /\ WithinOff
    /\ \/ grid \in GridsUpTo(MaxMouseCells) /\ box \in Boxes
       \/ grid = TestGrid /\ box = TestBox
    /\ MouseInit
    /\ SamplerOff
    /\ ScanOff
    /\ RestOff

MouseIdle == mOutcome = "none"

NextMouse ==
    \/ MouseIdle /\ \E col \in Cols, row \in Rows, b \in Lookup : GetCellCenter(col, row, b)
    \/ MouseIdle /\ \E col \in Cols, row \in Rows, b \in Lookup, f \in BOOLEAN :
                     ClickCell(col, row, b, f)
    \/ MouseIdle /\ \E col \in Cols, row \in Rows, b \in Lookup, f \in BOOLEAN :
                     DoubleClickCell(col, row, b, f)
    \/ MouseIdle /\ \E col \in Cols, row \in Rows, b \in Lookup, f \in BOOLEAN :
                     RightClickCell(col, row, b, f)
    \/ MouseIdle /\ \E col \in Cols, row \in Rows, o \in HoverOptions,
                        b \in Lookup, e \in HoverEnvs :
                     HoverCell(col, row, o, b, e)
    \/ MouseIdle /\ \E fc \in Cols, fr \in Rows, tc \in Cols, tr \in Rows,
                        b1 \in Lookup, b2 \in Lookup, k \in 0..DragCalls :
                     DragFromCellToCell(fc, fr, tc, tr, b1, b2, k)
    \/ MouseReturn

SpecMouse == InitMouse /\ [][NextMouse]_vars

InitSampler ==
    /\ WithinOff
    /\ \/ grid \in GridsUpTo(MaxMouseCells) /\ box \in Boxes
       \/ grid = TestGrid /\ box = TestBox
    /\ MouseOff
    /\ SamplerInit
    /\ ScanOff
    /\ RestOff

NextSampler ==
    \/ \E col \in Cols, row \in Rows : SampleCell(col, row)
    \/ \E found \in BOOLEAN : ElementHandle(found)
    \/ \E rejects \in BOOLEAN : Evaluate(rejects)
    \/ AnimationFrame
    \/ ReturnDirect
    \/ \E lookup \in Lookup : BoundingBox(lookup)
    \/ \E fails \in BOOLEAN : Screenshot(fails)
    \/ \E fails \in BOOLEAN, img \in Images : Decode(fails, img)
    \/ SamplerReturn

SpecSampler == InitSampler /\ [][NextSampler]_vars

(***************************************************************************)
(* GridScanner: the specification.                                         *)
(***************************************************************************)
Init ==
    /\ WithinOff
    /\ grid \in GridsUpTo(MaxCells) \cup {ScanTestGrid}
    /\ box = TestBox
    /\ MouseOff
    /\ SamplerOff
    /\ ScanInit
    /\ RestOff

ScanIdle == gPc = "idle"

Next ==
    \/ ScanIdle /\ \E lookup \in Lookup, skipEmptyCells \in SkipOptions,
                      progressCallback \in BOOLEAN :
           ScanAllCellsForTooltips(lookup, skipEmptyCells, progressCallback)
    \/ \E env \in ScanAllEvents \cup {CalmEnv} : ScanAllCell(env)
    \/ \E moveFails \in BOOLEAN : ScanAllFinish(moveFails)
    \/ ScanIdle /\ \E lookup \in Lookup, maxCellsToCheck \in Caps :
           HasAnyTooltips(lookup, maxCellsToCheck)
    \/ \E env \in HasAnyEvents \cup {CalmEnv} : HasAnyCell(env)
    \/ \E moveFails \in BOOLEAN : HasAnyFinish(moveFails)
    \/ ScanIdle /\ \E c \in SelectCalls :
           SelectCellsAndExtractText(c.lookup, c.startCol, c.startRow, c.endCol,
                                     c.endRow, c.includeCoordinates)
    \/ ScanIdle /\ \E col \in ExtractCols, row \in ExtractRows :
           ExtractCellText(<<box>>, col, row)
    \/ ScanIdle /\ \E row \in ExtractRows, includeCoordinates \in {NoArg, Arg(TRUE)} :
           ExtractRowText(<<box>>, row, includeCoordinates)
    \/ ScanIdle /\ \E col \in ExtractCols, includeCoordinates \in {NoArg, Arg(TRUE)} :
           ExtractColumnText(<<box>>, col, includeCoordinates)
    \/ \E env \in SelectEvents \cup {CalmEnv} : SelectCell(env)
    \/ \E moveFails \in BOOLEAN : SelectFinish(moveFails)

Spec == Init /\ [][Next]_vars

(***************************************************************************)
(* GridOverlay: highlightCell on the attached grid.                        *)
(***************************************************************************)
InitOverlay ==
    /\ WithinOff
    /\ \/ grid \in GridsUpTo(MaxMouseCells) /\ box \in Boxes
       \/ grid = TestGrid /\ box = TestBox
    /\ MouseOff
    /\ SamplerOff
    /\ ScanOff
    /\ OverlayInit
    /\ DetectorOff
    /\ FacadeOff
    /\ StepsOff

NextOverlay ==
    \/ \E col \in Cols, row \in Rows, options \in HighlightOptions,
          lookup \in Lookup, fails \in BOOLEAN :
           HighlightCell(col, row, options, lookup, fails)
    \/ OverlayReturn

SpecOverlay == InitOverlay /\ [][NextOverlay]_vars

(***************************************************************************)
(* TooltipDetector: its operations, each on any of the pages.              *)
(***************************************************************************)
InitDetector ==
    /\ WithinOff
    /\ grid = TestGrid
    /\ box = TestBox
    /\ MouseOff
    /\ SamplerOff
    /\ ScanOff
    /\ OverlayOff
    /\ DetectorInit
    /\ FacadeOff
    /\ StepsOff

DetectorIdle == dOp = "none"

NextDetector ==
    \/ DetectorIdle /\ \E cell \in DetectCells, options \in DetectOptions, page \in Pages,
                          env \in {"none", "hoverFn", "waitForTimeout", "screenshot"} :
           HoverCellAndCaptureTooltip(cell.col, cell.row, options, page, env)
    \/ DetectorIdle /\ \E page \in Pages : GetVisibleTooltips(page)
    \/ DetectorIdle /\ \E options \in WaitOptions :
           \E timeline \in (IF options.tooltipSelectors = NoArg THEN DefaultTimelines
                            ELSE Timelines(Len(options.tooltipSelectors[1]))) :
               WaitForTooltip(options, timeline)
    \/ DetectorReturn

SpecDetector == InitDetector /\ [][NextDetector]_vars

(***************************************************************************)
(* CanvasGrid: configuration calls and attach() on one object, in any      *)
(* order.                                                                  *)
(***************************************************************************)
InitFacade ==
    /\ WithinOff
    /\ grid = DEFAULT_GRID
    /\ box = TestBox
    /\ MouseOff
    /\ SamplerOff
    /\ ScanOff
    /\ OverlayOff
    /\ DetectorOff
    /\ FacadeInit
    /\ StepsOff

FacadeIdle == cOutcome = "none"

NextFacade ==
    \/ FacadeIdle /\ Locator(CanvasSelector)
    \/ FacadeIdle /\ \E index \in 0..MaxNth : Nth(index)
    \/ FacadeIdle /\ \E cols \in Dimensions, rows \in Dimensions : GridSize(cols, rows)
    \/ FacadeIdle /\ \E matches1 \in Matches, rect \in CanvasRects, matches2 \in Matches,
                         overlayFails \in BOOLEAN :
                      Attach(matches1, rect, matches2, overlayFails)
    \/ FacadeReturn

SpecFacade == InitFacade /\ [][NextFacade]_vars

(***************************************************************************)
(* GridScanner: one scan after another, await by await, the page settling  *)
(* the operations in flight in any order and either way.                   *)
(***************************************************************************)
InitSteps ==
    /\ WithinOff
    /\ \/ grid \in GridsUpTo(MaxCells) /\ box \in Boxes
       \/ grid = ScanTestGrid /\ box = TestBox
    /\ MouseOff
    /\ SamplerOff
    /\ ScanOff
    /\ OverlayOff
    /\ DetectorOff
    /\ FacadeOff
    /\ StepsInit

NextSteps ==
    \/ ScanStep
    \/ \E op \in stInFlight, rejects \in BOOLEAN : Settled(op, rejects)
    \/ StepsReturn

SpecSteps == InitSteps /\ [][NextSteps]_vars

=============================================================================
